---- MODULE Spec2Model ----
(***************************************************************************)
(* A model of the SOLID-Principles example scripts.  Every example file is *)
(* a standalone program: it declares a few classes and runs some calls on  *)
(* them, printing to the console.  One behaviour of the model is one run   *)
(* of one example: `example' names the file, `driver' tells whether the    *)
(* file's own top-level statements run ("script") or an arbitrary client   *)
(* of the file's classes and functions makes the calls ("client").         *)
(*                                                                         *)
(* A console line is a sequence of tokens: S(text) for literal text, N(n)  *)
(* for a printed number and O(v) for a printed object.  An uncaught error  *)
(* ends the run: `thrown' holds its message and no action is enabled.      *)
(***************************************************************************)
EXTENDS Integers, Sequences, FiniteSets, TLC

VARIABLES
    example,    \* the example file being run
    driver,     \* "script": the file's top-level statements; "client": any caller
    pc,         \* script driver: index of the next top-level statement
    console,    \* the lines printed so far
    thrown,     \* message of the uncaught error that ended the run, or NoError
    call,       \* the operation invoked last: [fn, arg]
    invoked,    \* the methods that operation invoked on its way, in order
    ret,        \* what the operation invoked last returned
    order,      \* main.ts: the Order
    invoice,    \* main.ts: const invoice
    total,      \* main.ts: const total
    shapes,     \* non_ocp.ts: the array of shapes handed to a calculator
    repository, \* the IUserRepository injected into UserUseService
    object      \* the README examples: the object the client holds and calls

\* The state of the order example, of the shapes example and of the user
\* example, and what the actions of each example leave alone.
srpVars == <<order, invoice, total>>
ocpVars == <<shapes>>
dipVars == <<repository>>
notBirds == <<srpVars, ocpVars, dipVars, object>>
notSrp == <<ocpVars, dipVars, object>>
notOcp == <<srpVars, dipVars, object>>
notDip == <<srpVars, ocpVars, object>>
notObject == <<srpVars, ocpVars, dipVars>>

vars ==
    <<example, driver, pc, console, thrown, call, invoked, ret, srpVars, ocpVars,
      dipVars, object>>

\* Longest console a client run is driven to.
MaxLog == 4

\* Most products a client puts in an order.
MaxProducts == 3

\* Longest array of shapes a client builds.
MaxShapes == 3

\* Most payment methods a client registers with a payment service.
MaxProcessors == 3

NoError == ""
\* The value of a missing property or of a call that returns nothing.
Undefined == [undefined |-> TRUE]
NoCall == [fn |-> "", arg |-> Undefined]

----------------------------------------------------------------------------
(* Values printed and returned.                                            *)

S(s) == [s |-> s]
N(n) == [n |-> n]
O(o) == [o |-> o]

\* The effect of running a piece of code: the lines it printed, the error
\* it threw (NoError when it completed), the value it returned and the
\* methods it invoked on its way.
Effect(out, err, r) == [out |-> out, err |-> err, ret |-> r, calls |-> <<>>]

\* console.log(s)
Log(s) == Effect(<< <<S(s)>> >>, NoError, Undefined)

\* throw new Error(msg)
Throw(msg) == Effect(<<>>, msg, Undefined)

\* return v
Return(v) == Effect(<<>>, NoError, v)

\* Statement sequencing `a; b': b runs only when a completed.
Then(a, b) ==
    IF a.err # NoError THEN a
    ELSE [out |-> a.out \o b.out, err |-> b.err, ret |-> b.ret,
          calls |-> a.calls \o b.calls]

\* The call of method `name', whose body does `e'.
Calling(name, e) == [e EXCEPT !.calls = <<name>> \o @]

----------------------------------------------------------------------------
(* Classes, inheritance and method dispatch.                               *)

Object == "Object"

\* The method `m' an instance of `cls' responds with: its own, else the one
\* it inherits; Undefined when no class of the chain declares it.
RECURSIVE Lookup(_, _, _)
Lookup(classes, cls, m) ==
    IF cls \notin DOMAIN classes THEN Undefined
    ELSE IF m \in DOMAIN classes[cls].methods THEN classes[cls].methods[m]
    ELSE Lookup(classes, classes[cls].extends, m)

\* The methods an instance of `cls' offers.
RECURSIVE MethodsOf(_, _)
MethodsOf(classes, cls) ==
    IF cls \notin DOMAIN classes THEN {}
    ELSE DOMAIN classes[cls].methods \cup MethodsOf(classes, classes[cls].extends)

\* cls is `anc' or extends it, directly or not.
RECURSIVE IsA(_, _, _)
IsA(classes, cls, anc) ==
    IF cls = anc THEN TRUE
    ELSE IF cls \notin DOMAIN classes THEN FALSE
    ELSE IsA(classes, classes[cls].extends, anc)

\* The classes an argument of declared type `type' may be an instance of.
InstancesOf(classes, type) == {c \in DOMAIN classes : IsA(classes, c, type)}

\* obj.m() on an instance of cls.
Invoke(classes, cls, m) ==
    LET body == Lookup(classes, cls, m)
    IN  IF body = Undefined THEN Throw("TypeError: " \o m \o " is not a function")
        ELSE body

----------------------------------------------------------------------------
(* Liskov substitution, violating example (non_lsp.ts).                    *)

\* Penguin without its own fly: it inherits Bird's.
NonLspClasses_PenguinInheritsFly ==
    [ Bird    |-> [extends |-> Object,
                   methods |-> [fly       |-> Log("Bird fly"),
                                makeSound |-> Log("bird makes sound")]],
      Aparrow |-> [extends |-> "Bird",
                   methods |-> [fly       |-> Log("Sparrow fly"),
                                makeSound |-> Log("Sparrow Sound")]],
      Penguin |-> [extends |-> "Bird",
                   methods |-> [makeSound |-> Log("Pemhuin Sound")]] ]

NonLspClasses ==
    [ Bird    |-> [extends |-> Object,
                   methods |-> [fly       |-> Log("Bird fly"),
                                makeSound |-> Log("bird makes sound")]],
      Aparrow |-> [extends |-> "Bird",
                   methods |-> [fly       |-> Log("Sparrow fly"),
                                makeSound |-> Log("Sparrow Sound")]],
      Penguin |-> [extends |-> "Bird",
                   methods |-> [fly       |-> Throw("Penguin cannot fly"),
                                makeSound |-> Log("Pemhuin Sound")]] ]

makeBirdFly(bird) ==
    Then(Invoke(NonLspClasses, bird, "fly"),
         Invoke(NonLspClasses, bird, "makeSound"))

----------------------------------------------------------------------------
(* Liskov substitution, compliant example (lsp.ts).                        *)

\* Penguins placed under flyingBird with a fly that throws, as in non_lsp.ts.
LspClasses_PenguinsUnderFlyingBird ==
    [ BaseBird   |-> [extends |-> Object,
                      methods |-> [makeSound |-> Log("Bird makes sound")]],
      flyingBird |-> [extends |-> "BaseBird",
                      methods |-> [fly |-> Log("flying brids can fly")]],
      Aparrow    |-> [extends |-> "flyingBird",
                      methods |-> [fly       |-> Log("Aparrow can fly"),
                                   makeSound |-> Log("Aparrow can sound")]],
      Penguins   |-> [extends |-> "flyingBird",
                      methods |-> [fly       |-> Throw("Penguin cannot fly"),
                                   makeSound |-> Log("Penguins can make sounds")]] ]

LspClasses ==
    [ BaseBird   |-> [extends |-> Object,
                      methods |-> [makeSound |-> Log("Bird makes sound")]],
      flyingBird |-> [extends |-> "BaseBird",
                      methods |-> [fly |-> Log("flying brids can fly")]],
      Aparrow    |-> [extends |-> "flyingBird",
                      methods |-> [fly       |-> Log("Aparrow can fly"),
                                   makeSound |-> Log("Aparrow can sound")]],
      Penguins   |-> [extends |-> "BaseBird",
                      methods |-> [makeSound |-> Log("Penguins can make sounds")]] ]

letBirdMakeSound(bird) == Invoke(LspClasses, bird, "makeSound")

letBirdFly(bird) ==
    Then(Invoke(LspClasses, bird, "fly"),
         Invoke(LspClasses, bird, "makeSound"))

----------------------------------------------------------------------------
(* Interface segregation, violating example (non_isp.ts).                  *)

\* interface Bird
NonIspBird == {"fly", "swim", "makeSound"}

\* Penguinss.fly printing instead of throwing.
NonIspClasses_PenguinssFlies ==
    [ Duck      |-> [extends |-> Object,
                     methods |-> [fly       |-> Log("Duck flies"),
                                  swim      |-> Log("Duck swims"),
                                  makeSound |-> Log("Quack")]],
      Penguinss |-> [extends |-> Object,
                     methods |-> [fly       |-> Log("Penguin flies"),
                                  swim      |-> Log("Penguin swims"),
                                  makeSound |-> Log("Penguin sound")]] ]

NonIspClasses ==
    [ Duck      |-> [extends |-> Object,
                     methods |-> [fly       |-> Log("Duck flies"),
                                  swim      |-> Log("Duck swims"),
                                  makeSound |-> Log("Quack")]],
      Penguinss |-> [extends |-> Object,
                     methods |-> [fly       |-> Throw("Penguin can't fly"),
                                  swim      |-> Log("Penguin swims"),
                                  makeSound |-> Log("Penguin sound")]] ]

\* The calls of the file's top-level statements, in order.
NonIspScript ==
    << [obj |-> "Duck",      m |-> "fly"],
       [obj |-> "Duck",      m |-> "swim"],
       [obj |-> "Duck",      m |-> "makeSound"],
       [obj |-> "Penguinss", m |-> "swim"],
       [obj |-> "Penguinss", m |-> "makeSound"],
       [obj |-> "Penguinss", m |-> "fly"] >>

----------------------------------------------------------------------------
(* Interface segregation, compliant example.                               *)

IspClasses ==
    [ Duckss     |-> [extends |-> Object,
                      methods |-> [fly       |-> Log("Duck flies"),
                                   swim      |-> Log("Duck swims"),
                                   makeSound |-> Log("Quack")]],
      Penguinsss |-> [extends |-> Object,
                      methods |-> [swim      |-> Log("Penguin swims"),
                                   makeSound |-> Log("Penguin sound")]] ]

----------------------------------------------------------------------------
(* Single responsibility, compliant example (order.ts, InventoryService.ts, *)
(* AccountingService.ts, InvoiceService, PaymentService, main.ts).          *)
(*                                                                          *)
(* The GST rate 0.18 is GstPercent / PercentUnit.  A number of this example *)
(* is held exactly, as an integer count of 1/PercentUnit: Num(12000) is     *)
(* 12000 and Num(2160) is 2160.  Floating-point rounding is not modelled.   *)

GstPercent == 18
PercentUnit == 100

Num(n) == n * PercentUnit

\* new Product(id, name, price)
Product(id, name, price) == [id |-> id, name |-> name, price |-> Num(price)]

\* new Order(orderId)
Order(orderId) == [orderId |-> orderId, products |-> <<>>]

\* The internal list itself, not a copy.
getProducts(o) == o.products

\* The order after order.getProducts().push(product).
addProduct_UniqueIds(o, product) ==
    IF \E i \in 1..Len(getProducts(o)) : getProducts(o)[i].id = product.id THEN o
    ELSE [o EXCEPT !.products = Append(getProducts(o), product)]

addProduct(o, product) ==
    [o EXCEPT !.products = Append(getProducts(o), product)]

\* products.findIndex(d => d.id == productId), 1-based; 0 for JavaScript's -1.
RECURSIVE findIndex(_, _, _)
findIndex(ps, productId, i) ==
    IF i > Len(ps) THEN 0
    ELSE IF ps[i].id = productId THEN i
    ELSE findIndex(ps, productId, i + 1)

\* products.splice(index, 1)
splice1(ps, index) == SubSeq(ps, 1, index - 1) \o SubSeq(ps, index + 1, Len(ps))

removeProduct(o, productId) ==
    LET products == getProducts(o)
        index == findIndex(products, productId, 1)
    IN  IF index # 0 THEN [o EXCEPT !.products = splice1(products, index)]
        ELSE o

\* ps.reduce((sum, p) => sum + p.price, sum) from element i on.
RECURSIVE reduce(_, _, _)
reduce(ps, i, sum) ==
    IF i > Len(ps) THEN sum
    ELSE reduce(ps, i + 1, sum + ps[i].price)

calculateTotal(o) == reduce(getProducts(o), 1, 0)

\* The total with the tax on top, instead of the tax.
calculateTax_Gross(o) ==
    calculateTotal(o) + (calculateTotal(o) * GstPercent) \div PercentUnit

calculateTax(o) == (calculateTotal(o) * GstPercent) \div PercentUnit

\* A string built by a template or by join is the sequence of its tokens;
\* NL is the newline between two joined lines.
NL == [nl |-> TRUE]

\* lines.join('\n')
RECURSIVE join(_)
join(lines) ==
    IF lines = <<>> THEN <<>>
    ELSE IF Len(lines) = 1 THEN lines[1]
    ELSE lines[1] \o <<NL>> \o join(Tail(lines))

\* The lines a string shows as when printed: it is cut at every newline.
RECURSIVE SplitLines(_, _)
SplitLines(str, line) ==
    IF str = <<>> THEN <<line>>
    ELSE IF Head(str) = NL THEN <<line>> \o SplitLines(Tail(str), <<>>)
    ELSE SplitLines(Tail(str), Append(line, Head(str)))

\* console.log(str)
LogString(str) == Effect(SplitLines(str, <<>>), NoError, Undefined)

Separator == <<S("---------------------------------------------")>>

\* The Total line carrying the subtotal alone.
generateInvoice_TotalWithoutTax(o, date) ==
    join(<< <<S("Invoice Date: "), S(date)>>,
            Separator,
            <<S("Product Name\tPrice")>> >>
         \o [i \in 1..Len(getProducts(o)) |->
                <<S(getProducts(o)[i].name), S("\t\t"), N(getProducts(o)[i].price)>>]
         \o << Separator,
               <<S("Subtotal: "), N(calculateTotal(o))>>,
               <<S("Tax: "), N(calculateTax(o))>>,
               <<S("Total: "), N(calculateTotal(o))>> >>)

\* InvoiceService.generateInvoice(order, accounting), run on the day `date'.
generateInvoice(o, date) ==
    join(<< <<S("Invoice Date: "), S(date)>>,
            Separator,
            <<S("Product Name\tPrice")>> >>
         \o [i \in 1..Len(getProducts(o)) |->
                <<S(getProducts(o)[i].name), S("\t\t"), N(getProducts(o)[i].price)>>]
         \o << Separator,
               <<S("Subtotal: "), N(calculateTotal(o))>>,
               <<S("Tax: "), N(calculateTax(o))>>,
               <<S("Total: "), N(calculateTotal(o) + calculateTax(o))>> >>)

\* PaymentService.processPayment(amount)
processPayment(amount) ==
    Effect(<< <<S("Processing payment...")>>,
              <<S("Payment of "), N(amount), S(" processed successfully!")>>,
              <<S("Added to accounting system!")>>,
              <<S("Email sent to customer!")>> >>,
           NoError, Undefined)

\* main.ts
product1 == Product("1", "Laptop", 10000)
product2 == Product("2", "Mobile", 2000)

\* main.ts: the amount paid, without the tax.
mainTotal_WithoutTax(o) == calculateTotal(o)

\* main.ts: accounting.calculateTotal(order) + accounting.calculateTax(order)
mainTotal(o) == calculateTotal(o) + calculateTax(o)

\* The top-level statements of main.ts that act, in order.
MainScript ==
    <<"addProduct1", "addProduct2", "generateInvoice", "log", "total",
      "processPayment">>

\* What a client passes in: the products of main.ts and one more sharing
\* the id of the first; the ids; the days an invoice is made on.
Products == {product1, product2, Product("1", "Mouse", 500)}
ProductIds == {"1", "2", "3"}
Dates == {"Thu Jun 26 2025", "Fri Jun 27 2025"}

----------------------------------------------------------------------------
(* Open/closed (non_ocp.ts and the README's test).                          *)
(*                                                                          *)
(* A number of this example is held as an integer count of millionths:      *)
(* Micro(50) is 50, Half is 0.5 and Pi is Math.PI to six decimals.          *)

MicroUnit == 1000000
Half == 500000
Pi == 3141593

Micro(n) == n * MicroUnit

\* The type-switching calculator without the triangle's factor 0.5.
RECURSIVE AreaCalculator_calculateArea_NoHalf(_)
AreaCalculator_calculateArea_NoHalf(list) ==
    IF list = <<>> THEN Return(0)
    ELSE LET shape == list[Len(list)]
             totalArea == AreaCalculator_calculateArea_NoHalf(
                              SubSeq(list, 1, Len(list) - 1)).ret
             type == IF "type" \in DOMAIN shape THEN shape.type ELSE "undefined"
         IN  Return(CASE type = "rectangle" -> totalArea + Micro(shape.width * shape.height)
                      [] type = "circle" -> totalArea + Pi * shape.radius * shape.radius
                      [] type = "triangle" -> totalArea + Micro(shape.base * shape.height)
                      [] OTHER -> totalArea)

\* AreaCalculator.calculateArea(shapes): totalArea after the loop has taken
\* the elements of `list' in order.  An element of no known type adds nothing.
RECURSIVE AreaCalculator_calculateArea(_)
AreaCalculator_calculateArea(list) ==
    IF list = <<>> THEN Return(0)
    ELSE LET shape == list[Len(list)]
             totalArea == AreaCalculator_calculateArea(
                              SubSeq(list, 1, Len(list) - 1)).ret
             type == IF "type" \in DOMAIN shape THEN shape.type ELSE "undefined"
         IN  Return(CASE type = "rectangle" -> totalArea + Micro(shape.width * shape.height)
                      [] type = "circle" -> totalArea + Pi * shape.radius * shape.radius
                      [] type = "triangle" -> totalArea + Half * shape.base * shape.height
                      [] OTHER -> totalArea)

\* new Rectangle(width, height), new Circle(radius), ...
Shape == [class |-> "Shape"]
Rectangle(width, height) == [class |-> "Rectangle", width |-> width, height |-> height]
Circle(radius) == [class |-> "Circle", radius |-> radius]
Triangle(base, height) == [class |-> "Triangle", base |-> base, height |-> height]
Hexagon(side, apothem) == [class |-> "Hexagon", side |-> side, apothem |-> apothem]
Square(side) == [class |-> "Square", side |-> side]

\* shape.calculateArea(): the method of the instance's class; Shape's own
\* throws, and an object of no class has no such method.
calculateArea(this) ==
    LET class == IF "class" \in DOMAIN this THEN this.class ELSE "undefined"
    IN  CASE class = "Rectangle" -> Return(Micro(this.width * this.height))
          [] class = "Circle" -> Return(Pi * this.radius * this.radius)
          [] class = "Triangle" -> Return(Half * this.base * this.height)
          [] class = "Hexagon" -> Return(Micro(3 * this.side * this.apothem))
          [] class = "Square" -> Return(Micro(this.side * this.side))
          [] class = "Shape" -> Throw("calculateArea must be implemented")
          [] OTHER -> Throw("TypeError: calculateArea is not a function")

\* The polymorphic calculator assigning instead of adding.
AreaCalculator2_calculateArea_Assigns(list) ==
    IF list = <<>> THEN Return(0) ELSE calculateArea(list[Len(list)])

\* AreaCalculator2.calculateArea(shapes):
\* shapes.reduce((total, shape) => total + shape.calculateArea(), 0)
RECURSIVE AreaCalculator2_calculateArea(_)
AreaCalculator2_calculateArea(list) ==
    IF list = <<>> THEN Return(0)
    ELSE LET sofar == AreaCalculator2_calculateArea(SubSeq(list, 1, Len(list) - 1))
             area == calculateArea(list[Len(list)])
         IN  IF sofar.err # NoError THEN sofar
             ELSE IF area.err # NoError THEN area
             ELSE Return(sofar.ret + area.ret)

\* The elements of the file's `shapes' and `shapes2' and of the README's
\* tests, and a bare Shape.
PlainShapes ==
    { [type |-> "rectangle", width |-> 10, height |-> 5],
      [type |-> "circle", radius |-> 7],
      [type |-> "triangle", base |-> 6, height |-> 8] }
ShapeInstances ==
    { Rectangle(10, 5), Circle(7), Triangle(6, 8), Hexagon(4, 3),
      Rectangle(5, 4), Circle(3), Square(5), Shape }

----------------------------------------------------------------------------
(* Dependency inversion, compliant example.                                 *)

\* UserUseRepository and, of the same shape, the UserRepository of the
\* violating example.
\* getUser answering with the first user whatever the id asked for.
UserUseRepository_getUser_FirstUser(id) == Return([id |-> "1", name |-> "Alice"])

UserUseRepository_getUser(id) == Return([id |-> id, name |-> "Alice"])

UserUseRepository_saveUser(user) ==
    Then(Effect(<< <<S("saving user"), O(user)>> >>, NoError, Undefined),
         Return([name |-> "Manish", email |-> "manish@gmail.com"]))

UserRepository_getUser(id) == Return([id |-> id, name |-> "Alice"])

UserRepository_saveUser(user) == Return([user |-> user])

\* this.repo.getUser(id) and this.repo.saveUser(user) on the injected
\* repository: one of the two classes, or any other implementation of
\* IUserRepository, given by what each call of it does.
repo_getUser(repo, id) ==
    CASE repo.class = "UserUseRepository" -> UserUseRepository_getUser(id)
      [] repo.class = "UserRepository" -> UserRepository_getUser(id)
      [] OTHER -> repo.getUser[id]

repo_saveUser(repo, user) ==
    CASE repo.class = "UserUseRepository" -> UserUseRepository_saveUser(user)
      [] repo.class = "UserRepository" -> UserRepository_saveUser(user)
      [] OTHER -> repo.saveUser[user]

UserUseService_getUser(repo, id) == repo_getUser(repo, id)

UserUseService_saveUser(repo, user) == repo_saveUser(repo, user)

\* The controller on a service built on `repo'.
UserUseController_getUser(repo, id) ==
    LET user == UserUseService_getUser(repo, id)
    IN  Then(user,
             Effect(<< <<S("getUser result:"), O(user.ret)>> >>, NoError, user.ret))

\* The controller handing back its argument instead of the service's result.
UserUseController_saveUser_ReturnsArgument(repo, user) ==
    LET userObj == UserUseService_saveUser(repo, user)
    IN  Then(userObj,
             Effect(<< <<S("saveUser result:"), O(userObj.ret)>> >>, NoError, user))

UserUseController_saveUser(repo, user) ==
    LET userObj == UserUseService_saveUser(repo, user)
    IN  Then(userObj,
             Effect(<< <<S("saveUser result:"), O(userObj.ret)>> >>, NoError, userObj.ret))

\* What a client passes in.
UserIds == {"1", "2"}
Users ==
    {[name |-> "Manish", email |-> "manish@gmail.com"],
     [id |-> "1", name |-> "Bob"]}

\* What one call of some implementation of IUserRepository may do: return
\* an object, return nothing, or throw.
Outcomes ==
    { Return([id |-> "7", name |-> "Bob"]),
      Return(Undefined),
      Throw("connection lost") }

Repositories ==
    { [class |-> "UserUseRepository"], [class |-> "UserRepository"] }
    \cup { [class |-> "other", getUser |-> g, saveUser |-> sv] :
              g \in [UserIds -> Outcomes], sv \in [Users -> Outcomes] }

----------------------------------------------------------------------------
(* Rectangle and Square, violating example (LSP README).                    *)

\* new Rectangle(width, height) and new Square(side): super(side, side)
NewRectangle(width, height) ==
    [class |-> "Rectangle", width |-> width, height |-> height]
NewSquare(side) == [class |-> "Square", width |-> side, height |-> side]

\* The object after this.setWidth(width).
setWidth(this, width) ==
    IF this.class = "Square"
    THEN [this EXCEPT !.width = width, !.height = width]
    ELSE [this EXCEPT !.width = width]

\* Square without its own setHeight: it inherits Rectangle's.
setHeight_Inherited(this, height) == [this EXCEPT !.height = height]

\* The object after this.setHeight(height).
setHeight(this, height) ==
    IF this.class = "Square"
    THEN [this EXCEPT !.width = height, !.height = height]
    ELSE [this EXCEPT !.height = height]

getArea(this) == this.width * this.height

\* resizeRectangle(rectangle): the object it leaves and what it does.  The
\* checking variant compares the area with 5 * 4 and throws on a difference.
resizeRectangle(rectangle, checking) ==
    LET resized == setHeight(setWidth(rectangle, 5), 4)
        expectedArea == 5 * 4
        actualArea == getArea(resized)
    IN  [ object |-> resized,
          effect |->
             IF checking
             THEN Then(Effect(<< <<S("Expected: "), N(expectedArea),
                                   S(", Actual: "), N(actualArea)>> >>,
                              NoError, Undefined),
                       IF actualArea # expectedArea
                       THEN Throw("Area calculation failed!")
                       ELSE Return(Undefined))
             ELSE Effect(<< <<S("Area: "), N(actualArea)>> >>, NoError, Undefined) ]

----------------------------------------------------------------------------
(* Payment processors (LSP README; non_lsp.ts, compliant version).  An      *)
(* amount is held in hundredths, as in the order example.                   *)

\* LSP README, PaymentProcessor.validatePayment accepting a zero amount.
Lsp_validatePayment_AcceptsZero(amount) ==
    IF amount < 0 THEN Throw("Payment amount must be positive")
    ELSE Return(Undefined)

\* LSP README, PaymentProcessor.validatePayment
Lsp_validatePayment(amount) ==
    IF amount <= 0 THEN Throw("Payment amount must be positive")
    ELSE Return(Undefined)

\* LSP README, processor.processPayment(amount) at time Date.now() = now,
\* for a processor of class `class'.
Lsp_processPayment(class, amount, now) ==
    LET pay(via, prefix) ==
            Then(Calling("validatePayment", Lsp_validatePayment(amount)),
                 Effect(<< <<S("Processing $"), N(amount), S(via)>> >>, NoError,
                        [transactionId |-> <<S(prefix), N(now)>>,
                         amount |-> amount,
                         status |-> "success"]))
    IN  CASE class = "CreditCardProcessor" -> pay(" via Credit Card", "CC_")
          [] class = "PayPalProcessor" -> pay(" via PayPal", "PP_")
          [] class = "CryptoProcessor" -> pay(" via Cryptocurrency", "CRYPTO_")
          [] OTHER -> Throw("processPayment() must be implemented")

\* non_lsp.ts, compliant version: the credit-card limit refusing 10000 too.
Compliant_validatePayment_Inclusive(class, amount) ==
    CASE class = "CreditCardProcessor" /\ amount >= Num(10000) ->
             Return([isValid |-> FALSE, error |-> "Credit card limit exceeded"])
      [] class = "PayPalProcessor" /\ amount < Num(1) ->
             Return([isValid |-> FALSE, error |-> "PayPal minimum is $1"])
      [] OTHER -> Return([isValid |-> TRUE])

\* non_lsp.ts, compliant version: this.validatePayment(amount)
Compliant_validatePayment(class, amount) ==
    CASE class = "CreditCardProcessor" /\ amount > Num(10000) ->
             Return([isValid |-> FALSE, error |-> "Credit card limit exceeded"])
      [] class = "PayPalProcessor" /\ amount < Num(1) ->
             Return([isValid |-> FALSE, error |-> "PayPal minimum is $1"])
      [] OTHER -> Return([isValid |-> TRUE])

\* this.executePayment(amount)
Compliant_executePayment(class, amount) ==
    LET prefix == CASE class = "CreditCardProcessor" -> "Credit card payment of $"
                    [] class = "PayPalProcessor" -> "PayPal payment of $"
                    [] OTHER -> "Payment of $"
    IN  Return([success |-> TRUE,
                message |-> <<S(prefix), N(amount), S(" processed")>>])

\* PaymentProcessor.processPayment(amount), inherited by every processor
Compliant_processPayment(class, amount) ==
    LET validation == Calling("validatePayment", Compliant_validatePayment(class, amount))
    IN  IF ~validation.ret.isValid
        THEN Then(validation,
                  Return([success |-> FALSE, error |-> validation.ret.error]))
        ELSE Then(validation,
                  Calling("executePayment", Compliant_executePayment(class, amount)))

\* processOrder(processor, amount); the two emoji it prints are spelled out
\* as "[check mark]" and "[cross mark]".
processOrder(class, amount) ==
    LET result == Calling("processPayment", Compliant_processPayment(class, amount))
    IN  Then(result,
             IF result.ret.success
             THEN Effect(<< <<S("[check mark] ")>> \o result.ret.message >>, NoError, Undefined)
             ELSE Effect(<< <<S("[cross mark] "), S(result.ret.error)>> >>, NoError, Undefined))

----------------------------------------------------------------------------
(* Payment service (lsp.ts, payment processing system).  A string that is   *)
(* sliced is held as the sequence of its characters.                        *)

\* str.slice(start) for a negative start: the last -start characters
slice(str, start) ==
    IF -start >= Len(str) THEN str
    ELSE SubSeq(str, Len(str) + start + 1, Len(str))

\* processor.processPayment(amount) at time Date.now() = now
Ocp_processPayment(processor, amount, now) ==
    LET validatePayment ==
            IF amount <= 0 THEN Throw("Payment amount must be positive")
            ELSE Return(TRUE)
        pay(line, prefix, method) ==
            Then(Calling("validatePayment", validatePayment),
                 Effect(<< <<S("Processing $"), N(amount)>> \o line >>, NoError,
                        [success |-> TRUE,
                         transactionId |-> <<S(prefix), N(now)>>,
                         method |-> method]))
    IN  CASE processor.class = "CreditCardProcessor" ->
                 pay(<<S(" via Credit Card ending in "), S(slice(processor.cardNumber, -4))>>,
                     "CC_", <<S("Credit Card")>>)
          [] processor.class = "PayPalProcessor" ->
                 pay(<<S(" via PayPal for "), S(processor.email)>>,
                     "PP_", <<S("PayPal")>>)
          [] processor.class = "BankTransferProcessor" ->
                 pay(<<S(" via Bank Transfer")>>, "BT_", <<S("Bank Transfer")>>)
          [] processor.class = "CryptocurrencyProcessor" ->
                 pay(<<S(" via "), S(processor.cryptoType), S(" to "),
                       S(processor.walletAddress)>>,
                     "CRYPTO_", <<S(processor.cryptoType), S(" Cryptocurrency")>>)
          [] OTHER -> Throw("processPayment method must be implemented")

\* PaymentService.addPaymentMethod(processor)
addPaymentMethod(this, processor) ==
    IF processor.class \notin {"PaymentProcessor", "CreditCardProcessor",
                               "PayPalProcessor", "BankTransferProcessor",
                               "CryptocurrencyProcessor"}
    THEN [object |-> this, effect |-> Throw("Processor must extend PaymentProcessor")]
    ELSE [object |-> [this EXCEPT !.processors = Append(@, processor)],
          effect |-> Return(Undefined)]

\* PaymentService.processPayments giving up at the first processor that throws.
processPayments_StopsAtThrow(this, amount, now) ==
    LET RECURSIVE loop(_)
        loop(i) ==
            IF i > Len(this.processors) THEN Return(<<>>)
            ELSE LET processor == this.processors[i]
                     result == Calling(processor.class \o ".processPayment",
                                       Ocp_processPayment(processor, amount, now))
                 IN  IF result.err # NoError
                     THEN [result EXCEPT !.err = NoError, !.ret = <<>>]
                     ELSE LET rest == loop(i + 1)
                          IN  [out |-> result.out \o rest.out,
                               err |-> NoError,
                               ret |-> <<result.ret>> \o rest.ret,
                               calls |-> result.calls \o rest.calls]
    IN  loop(1)

\* PaymentService.processPayments(amount); the clock reads `now' throughout.
processPayments(this, amount, now) ==
    LET RECURSIVE loop(_)
        loop(i) ==
            IF i > Len(this.processors) THEN Return(<<>>)
            ELSE LET processor == this.processors[i]
                     result == Calling(processor.class \o ".processPayment",
                                       Ocp_processPayment(processor, amount, now))
                     entry == IF result.err = NoError THEN result.ret
                              ELSE [success |-> FALSE,
                                    error |-> result.err,
                                    method |-> processor.class]
                     rest == loop(i + 1)
                 IN  [out |-> result.out \o rest.out,
                      err |-> NoError,
                      ret |-> <<entry>> \o rest.ret,
                      calls |-> result.calls \o rest.calls]
    IN  loop(1)

\* The processors of the usage example, a bare PaymentProcessor and an
\* object that is no processor.
Processors ==
    {[class |-> "CreditCardProcessor",
      cardNumber |-> <<"1", "2", "3", "4", "5", "6", "7", "8", "9", "0",
                       "1", "2", "3", "4", "5", "6">>,
      cvv |-> "123", expiryDate |-> "12/25"],
     [class |-> "PayPalProcessor", email |-> "user@example.com"],
     [class |-> "BankTransferProcessor", accountNumber |-> "987654321",
      routingNumber |-> "123456789"],
     [class |-> "CryptocurrencyProcessor", walletAddress |-> "1A2B3C4D5E6F",
      cryptoType |-> "Bitcoin"],
     [class |-> "PaymentProcessor"],
     [class |-> "Object"]}

----------------------------------------------------------------------------
(* Order service with an injected payment processor (DIP readme, example 1).*)
(* completeOrder is an async function: it runs up to its await of           *)
(* processPayment, and resumes when that promise settles.  The service      *)
(* record carries the promise awaited and the result it settled with.       *)

\* paymentProcessor.processPayment(amount, details), up to its first await.
\* A processor of another class stands for any other implementation of the
\* interface and prints nothing.
Dip_processPayment(class, amount) ==
    CASE class = "CreditCardProcessor" ->
             Effect(<< <<S("Processing $"), N(amount), S(" via Credit Card")>> >>,
                    NoError, Undefined)
      [] class = "PayPalProcessor" ->
             Effect(<< <<S("Processing $"), N(amount), S(" via PayPal")>> >>,
                    NoError, Undefined)
      [] class = "StripeProcessor" ->
             Effect(<< <<S("Processing $"), N(amount), S(" via Stripe")>> >>,
                    NoError, Undefined)
      [] OTHER -> Return(Undefined)

\* What the promise of processPayment can settle with at time Date.now() =
\* now: the three processors of the example resolve with a success, another
\* implementation resolves with either status or rejects.
PaymentResults(class, now) ==
    CASE class = "CreditCardProcessor" ->
             {[resolved |-> [status |-> "success", transactionId |-> <<S("cc_"), N(now)>>]]}
      [] class = "PayPalProcessor" ->
             {[resolved |-> [status |-> "success", transactionId |-> <<S("pp_"), N(now)>>]]}
      [] class = "StripeProcessor" ->
             {[resolved |-> [status |-> "success", transactionId |-> <<S("stripe_"), N(now)>>]]}
      [] OTHER ->
             {[resolved |-> [status |-> "success", transactionId |-> <<S("tx_"), N(now)>>]],
              [resolved |-> [status |-> "failure", transactionId |-> <<>>,
                             error |-> <<S("Insufficient funds")>>]],
              [rejected |-> "Gateway unreachable"]}

\* OrderService.completeOrder accepting an amount of zero.
completeOrder_AcceptsZero(this, orderAmount) ==
    IF orderAmount < 0
    THEN [object |-> this, effect |-> Throw("Invalid order amount")]
    ELSE [object |-> [this EXCEPT !.awaits = "processPayment", !.result = Undefined],
          effect |-> Calling("processPayment",
                             Dip_processPayment(this.paymentProcessor, orderAmount))]

\* OrderService.completeOrder(orderAmount, paymentDetails), up to the await
completeOrder(this, orderAmount) ==
    IF orderAmount <= 0
    THEN [object |-> this, effect |-> Throw("Invalid order amount")]
    ELSE [object |-> [this EXCEPT !.awaits = "processPayment", !.result = Undefined],
          effect |-> Calling("processPayment",
                             Dip_processPayment(this.paymentProcessor, orderAmount))]

\* OrderService.finalizeOrder(transactionId)
finalizeOrder(transactionId) ==
    Effect(<< <<S("Finalizing order with transaction ")>> \o transactionId >>,
           NoError, Undefined)

\* completeOrder finalizing the order whatever the status of the result.
completeOrder_resumed_AlwaysFinalizes(settled) ==
    IF "rejected" \in DOMAIN settled
    THEN Effect(<< <<S("Payment processing failed:"), O(settled.rejected)>> >>,
                settled.rejected, Undefined)
    ELSE LET result == settled.resolved
         IN  Then(Effect(<< <<S("Order completed successfully. Transaction ID: ")>>
                            \o result.transactionId >>, NoError, Undefined),
                  Calling("finalizeOrder", finalizeOrder(result.transactionId)))

\* OrderService.completeOrder from the await on, the promise having settled
completeOrder_resumed(settled) ==
    IF "rejected" \in DOMAIN settled
    THEN Effect(<< <<S("Payment processing failed:"), O(settled.rejected)>> >>,
                settled.rejected, Undefined)
    ELSE LET result == settled.resolved
         IN  IF result.status = "success"
             THEN Then(Effect(<< <<S("Order completed successfully. Transaction ID: ")>>
                                 \o result.transactionId >>, NoError, Undefined),
                       Calling("finalizeOrder", finalizeOrder(result.transactionId)))
             ELSE Effect(<< <<S("Order failed: ")>> \o result.error >>,
                         NoError, Undefined)

----------------------------------------------------------------------------
(* Application service with an injected logger (DIP readme, example 2).     *)
(* A timestamp is the instant it was taken at, standing for its ISO string. *)

\* logger.log(level, message, meta) at time `now'; a missing meta is printed
\* as the empty string.
RECURSIVE log(_, _, _, _, _)
log(logger, level, message, meta, now) ==
    LET shown == IF meta = Undefined THEN S("") ELSE O(meta)
        entry(tag) ==
            Effect(<< <<S("["), N(now), S(tag), S(level), S(": "), S(message), shown>> >>,
                   NoError, Undefined)
        RECURSIVE forEach(_)
        forEach(i) ==
            IF i > Len(logger.loggers) THEN Return(Undefined)
            ELSE Then(log(logger.loggers[i], level, message, meta, now),
                      forEach(i + 1))
    IN  CASE logger.class = "FileLogger" -> entry("] [FILE] ")
          [] logger.class = "DatabaseLogger" -> entry("] [DATABASE] ")
          [] logger.class = "ConsoleLogger" -> entry("] [CONSOLE] ")
          [] logger.class = "CompositeLogger" -> forEach(1)

\* ApplicationService.performOperation(), up to the await of doComplexWork
performOperation(this, now) ==
    Then(Calling("log INFO Starting operation",
                 log(this.logger, "INFO", "Starting operation", Undefined, now)),
         Calling("doComplexWork", Return(Undefined)))

\* performOperation keeping the error of the work to itself.
performOperation_resumed_Swallows(this, settled, now) ==
    IF "rejected" \in DOMAIN settled
    THEN Calling("log ERROR Operation failed",
                 log(this.logger, "ERROR", "Operation failed",
                     [error |-> settled.rejected], now))
    ELSE Calling("log INFO Operation completed",
                 log(this.logger, "INFO", "Operation completed",
                     [result |-> settled.resolved], now))

\* ApplicationService.performOperation() from the await on, the promise of
\* doComplexWork having settled
performOperation_resumed(this, settled, now) ==
    IF "rejected" \in DOMAIN settled
    THEN Then(Calling("log ERROR Operation failed",
                      log(this.logger, "ERROR", "Operation failed",
                          [error |-> settled.rejected], now)),
              Throw(settled.rejected))
    ELSE Calling("log INFO Operation completed",
                 log(this.logger, "INFO", "Operation completed",
                     [result |-> settled.resolved], now))

----------------------------------------------------------------------------
(* User service with an injected repository (DIP readme, steps 1 to 4).     *)
(* createUser is an async function that awaits repository.save.  Strings    *)
(* that are cut or converted are held as the sequences of their characters. *)

\* str.substr(start, length)
substr(str, start, length) ==
    IF start >= Len(str) THEN <<>>
    ELSE SubSeq(str, start + 1,
                IF start + length < Len(str) THEN start + length ELSE Len(str))

\* str.toLowerCase(), on ASCII text
toLowerCase(str) ==
    LET upper == <<"A", "B", "C", "D", "E", "F", "G", "H", "I", "J", "K", "L", "M",
                   "N", "O", "P", "Q", "R", "S", "T", "U", "V", "W", "X", "Y", "Z">>
        lower == <<"a", "b", "c", "d", "e", "f", "g", "h", "i", "j", "k", "l", "m",
                   "n", "o", "p", "q", "r", "s", "t", "u", "v", "w", "x", "y", "z">>
        one(c) == IF \E k \in 1..26 : upper[k] = c
                  THEN lower[CHOOSE k \in 1..26 : upper[k] = c]
                  ELSE c
    IN  [i \in 1..Len(str) |-> one(str[i])]

\* UserService.generateId(), `random' being Math.random().toString(36)
generateId(random) == substr(random, 2, 9)

\* UserService.processUserData leaving the email as it was typed.
processUserData_KeepsCase(user) == user

\* UserService.processUserData(user)
processUserData(user) == [user EXCEPT !.email = toLowerCase(user.email)]

\* repository.save(data), up to the point where its promise is returned.
\* A repository of another class stands for any other implementation of
\* DataRepository and prints nothing.
Repository_save(class, data) ==
    CASE class = "DatabaseRepository" ->
             Effect(<< <<S("Saving to database: "), O(data)>> >>, NoError, Undefined)
      [] class = "FileRepository" ->
             Effect(<< <<S("Saving to file: "), O(data)>> >>, NoError, Undefined)
      [] OTHER -> Return(Undefined)

\* UserService.createUser(userData), up to the await of repository.save;
\* userData has the fields of Omit<User, 'id'>: name and email.
createUser(this, userData, random) ==
    LET id == Calling("generateId", Return(generateId(random)))
        user == [id |-> id.ret, name |-> userData.name, email |-> userData.email]
        processedUser == Calling("processUserData", Return(processUserData(user)))
    IN  [object |-> [this EXCEPT !.awaits = "save", !.random = random,
                                 !.saved = <<processedUser.ret>>,
                                 !.processedUser = processedUser.ret],
         effect |-> Then(id, Then(processedUser,
                         Calling("save", Repository_save(this.repository,
                                                         processedUser.ret))))]

\* UserService.createUser from the await on, the promise of save having
\* settled
createUser_resumed(this, settled) ==
    IF "rejected" \in DOMAIN settled THEN Throw(settled.rejected)
    ELSE Return(this.processedUser)

----------------------------------------------------------------------------
(* User service over a Database (top-level README, dependency inversion,    *)
(* correct implementation).  The emoji that open the printed lines are      *)
(* spelled out in brackets; Math.random() is held in millionths.            *)

\* The object literal { ...first, ...second }: the fields of both, those of
\* `second' winning.
spread(first, second) ==
    [k \in DOMAIN first \cup DOMAIN second |->
        IF k \in DOMAIN second THEN second[k] ELSE first[k]]

\* database.save(data), `random' being Math.random()
Database_save(class, data, random) ==
    CASE class = "MySQLDatabase" ->
             Effect(<< <<S("[floppy disk] Saving to MySQL: "), O(data)>> >>, NoError,
                    spread([id |-> random], data))
      [] class = "PostgreSQLDatabase" ->
             Effect(<< <<S("[elephant] Saving to PostgreSQL: "), O(data)>> >>, NoError,
                    spread([id |-> random], data))
      [] class = "MongoDatabase" ->
             Effect(<< <<S("[leaf] Saving to MongoDB: "), O(data)>> >>, NoError,
                    spread([_id |-> random], data))
      [] OTHER -> Throw("save method must be implemented")

\* database.find(id)
Database_find(class, id) ==
    CASE class = "MySQLDatabase" ->
             Effect(<< <<S("[magnifier] Finding in MySQL with ID: "), N(id)>> >>,
                    NoError, [id |-> id, name |-> "John Doe"])
      [] class = "PostgreSQLDatabase" ->
             Effect(<< <<S("[magnifier] Finding in PostgreSQL with ID: "), N(id)>> >>,
                    NoError, [id |-> id, name |-> "Jane Smith"])
      [] class = "MongoDatabase" ->
             Effect(<< <<S("[magnifier] Finding in MongoDB with ID: "), N(id)>> >>,
                    NoError, [_id |-> id, name |-> "Bob Johnson"])
      [] OTHER -> Throw("find method must be implemented")

\* UserService.saveUser(user)
UserService_saveUser(this, user, random) ==
    Calling("save", Database_save(this.database, user, random))

\* UserService.getUser(id)
UserService_getUser(this, id) ==
    Calling("find", Database_find(this.database, id))

----------------------------------------------------------------------------
(* Two orders side by side (order.ts, InventoryService.ts).  An array is a  *)
(* cell of `arrays' and a reference to it is its index, so that two         *)
(* references to one array can be told from two arrays of equal content.    *)

\* Order.getProducts() handing out a copy of the list.
Order_getProducts_Copy(arrays, o) ==
    [arrays |-> Append(arrays, arrays[o.products]), ref |-> Len(arrays) + 1]

\* Order.getProducts(): return this.products
Order_getProducts(arrays, o) == [arrays |-> arrays, ref |-> o.products]

\* inventoryService.addProduct(order, product): the arrays afterwards
inventory_addProduct(arrays, o, product) ==
    LET got == Order_getProducts(arrays, o)
    IN  [got.arrays EXCEPT ![got.ref] = Append(@, product)]

\* inventoryService.removeProduct(order, productId): the arrays afterwards
inventory_removeProduct(arrays, o, productId) ==
    LET got == Order_getProducts(arrays, o)
        index == findIndex(got.arrays[got.ref], productId, 1)
    IN  IF index # 0 THEN [got.arrays EXCEPT ![got.ref] = splice1(@, index)]
        ELSE got.arrays

\* The order as a service reads it through order.getProducts().
OrderRead(arrays, o) ==
    LET got == Order_getProducts(arrays, o)
    IN  [orderId |-> o.orderId, products |-> got.arrays[got.ref]]

----------------------------------------------------------------------------
(* Database service over a connection (LSP README, database connections).   *)
(* performDatabaseOperation is an async function with three awaits; the     *)
(* service record carries the method whose promise is awaited, the result   *)
(* of the query and the method that failed.                                 *)

\* connection[method](query), up to the return of its promise.  A connection
\* of another class stands for any other subclass and prints nothing.
Connection_call(class, method, query) ==
    LET name == IF class = "MySQLConnection" THEN "MySQL" ELSE "PostgreSQL"
    IN  CASE class = "DatabaseConnection" -> Throw(method \o "() must be implemented")
          [] class \notin {"MySQLConnection", "PostgreSQLConnection"} -> Return(Undefined)
          [] method = "connect" -> Log("Connected to " \o name)
          [] method = "executeQuery" ->
                 Effect(<< <<S("Executing " \o name \o " query: "), S(query)>> >>,
                        NoError, Undefined)
          [] method = "disconnect" -> Log("Disconnected from " \o name)

\* What the promise returned by connection[method]() can settle with: the
\* two connections of the example resolve, another subclass may reject.
Connection_promise(class, method) ==
    LET name == IF class = "MySQLConnection" THEN "MySQL" ELSE "PostgreSQL"
        value == CASE method = "connect" -> name \o " connected"
                   [] method = "executeQuery" -> [result |-> name \o " result"]
                   [] method = "disconnect" -> Undefined
    IN  IF class \in {"MySQLConnection", "PostgreSQLConnection"}
        THEN {[resolved |-> value]}
        ELSE {[resolved |-> [result |-> "rows"]], [rejected |-> method \o " refused"]}

\* catch (error) { console.error("Database operation failed:", error); throw error }
DatabaseService_catch(error) ==
    Effect(<< <<S("Database operation failed:"), O(error)>> >>, error, Undefined)

\* await this.connection[method](query): the method is called, and the
\* function waits for its promise unless the call itself threw.
DatabaseService_await(this, method, query) ==
    LET called == Calling(method, Connection_call(this.connection, method, query))
    IN  IF called.err # NoError
        THEN [object |-> [this EXCEPT !.awaits = "", !.failed = method],
              effect |-> [DatabaseService_catch(called.err)
                             EXCEPT !.out = called.out \o @, !.calls = called.calls]]
        ELSE [object |-> [this EXCEPT !.awaits = method], effect |-> called]

\* DatabaseService.performDatabaseOperation(query), up to its first await
performDatabaseOperation(this, query) ==
    DatabaseService_await([this EXCEPT !.result = Undefined, !.failed = ""],
                          "connect", query)

\* performDatabaseOperation disconnecting in a finally block.
performDatabaseOperation_resumed_Finally(this, settled, query) ==
    IF "rejected" \in DOMAIN settled
    THEN [object |-> [this EXCEPT !.awaits = "", !.failed = this.awaits],
          effect |-> Then(Calling("disconnect",
                                  Connection_call(this.connection, "disconnect", query)),
                          DatabaseService_catch(settled.rejected))]
    ELSE CASE this.awaits = "connect" ->
                  DatabaseService_await(this, "executeQuery", query)
           [] this.awaits = "executeQuery" ->
                  DatabaseService_await([this EXCEPT !.result = settled.resolved],
                                        "disconnect", query)
           [] this.awaits = "disconnect" ->
                  [object |-> [this EXCEPT !.awaits = ""],
                   effect |-> Return(this.result)]

\* performDatabaseOperation from an await on, the awaited promise having
\* settled
performDatabaseOperation_resumed(this, settled, query) ==
    IF "rejected" \in DOMAIN settled
    THEN [object |-> [this EXCEPT !.awaits = "", !.failed = this.awaits],
          effect |-> DatabaseService_catch(settled.rejected)]
    ELSE CASE this.awaits = "connect" ->
                  DatabaseService_await(this, "executeQuery", query)
           [] this.awaits = "executeQuery" ->
                  DatabaseService_await([this EXCEPT !.result = settled.resolved],
                                        "disconnect", query)
           [] this.awaits = "disconnect" ->
                  [object |-> [this EXCEPT !.awaits = ""],
                   effect |-> Return(this.result)]

----------------------------------------------------------------------------
(* Dependency injection container (DIP readme, best practice 3).  A value   *)
(* of JavaScript is a record telling its kind: an object by its class, a    *)
(* number, a string or a boolean by its value.  The Map of services is a    *)
(* function from the tokens set so far.                                     *)

\* The truthiness of a value, as `!service' tests it
truthy(value) ==
    CASE value = Undefined -> FALSE
      [] "number" \in DOMAIN value -> value.number # 0
      [] "string" \in DOMAIN value -> value.string # ""
      [] "boolean" \in DOMAIN value -> value.boolean
      [] OTHER -> TRUE

\* DIContainer.register(token, implementation): the container afterwards
register(this, token, implementation) ==
    [this EXCEPT !.services =
        [t \in DOMAIN @ \cup {token} |-> IF t = token THEN implementation ELSE @[t]]]

\* DIContainer.resolve(token)
resolve(this, token) ==
    LET service == IF token \in DOMAIN this.services THEN this.services[token]
                   ELSE Undefined
    IN  IF ~truthy(service) THEN Throw("Service " \o token \o " not found")
        ELSE Return(service)

----------------------------------------------------------------------------
(* The runs.                                                               *)

Examples ==
    {"non_lsp", "lsp", "non_isp", "isp", "srp_main", "non_ocp", "dip",
     "lsp_rectangle", "lsp_processors", "lsp_compliant_payment",
     "payment_service", "dip_order", "dip_logger",
     "dip_user_service", "readme_database", "srp_orders",
     "lsp_database", "di_container"}

\* The object a client of the example starts with.
Objects(ex) ==
    CASE ex = "lsp_rectangle" -> {NewRectangle(2, 3), NewSquare(3)}
      [] ex = "lsp_processors" ->
             {[class |-> c] : c \in {"PaymentProcessor", "CreditCardProcessor",
                                     "PayPalProcessor", "CryptoProcessor"}}
      [] ex = "lsp_compliant_payment" ->
             {[class |-> c] : c \in {"PaymentProcessor", "CreditCardProcessor",
                                     "PayPalProcessor"}}
      [] ex = "payment_service" ->
             {[class |-> "PaymentService", processors |-> <<>>]}
      [] ex = "dip_order" ->
             {[class |-> "OrderService", paymentProcessor |-> c, awaits |-> "",
               result |-> Undefined] :
                 c \in {"CreditCardProcessor", "PayPalProcessor", "StripeProcessor",
                        "PaymentProcessor"}}
      [] ex = "dip_logger" ->
             {[class |-> "ApplicationService", logger |-> l, awaits |-> "",
               result |-> Undefined] :
                 l \in {[class |-> "FileLogger"], [class |-> "DatabaseLogger"],
                        [class |-> "ConsoleLogger"],
                        [class |-> "CompositeLogger",
                         loggers |-> <<[class |-> "FileLogger"],
                                       [class |-> "ConsoleLogger"]>>]}}
      [] ex = "dip_user_service" ->
             {[class |-> "UserService", repository |-> r, awaits |-> "",
               random |-> <<>>, saved |-> <<>>, processedUser |-> Undefined] :
                 r \in {"DatabaseRepository", "FileRepository", "DataRepository"}}
      [] ex = "readme_database" ->
             {[class |-> "UserService", database |-> d] :
                 d \in {"MySQLDatabase", "PostgreSQLDatabase", "MongoDatabase",
                        "Database"}}
      [] ex = "srp_orders" ->
             {[class |-> "Orders", arrays |-> << <<>>, <<>> >>,
               orders |-> <<[orderId |-> "ORD-001", products |-> 1],
                            [orderId |-> "ORD-002", products |-> 2]>>]}
      [] ex = "lsp_database" ->
             {[class |-> "DatabaseService", connection |-> c, awaits |-> "",
               result |-> Undefined, failed |-> ""] :
                 c \in {"MySQLConnection", "PostgreSQLConnection",
                        "DatabaseConnection", "Connection"}}
      [] ex = "di_container" ->
             {[class |-> "DIContainer", services |-> [t \in {} |-> Undefined]]}
      [] OTHER -> {Undefined}

\* The examples whose top-level statements are modelled one by one.
Scripted == {"non_isp", "srp_main"}

Init ==
    /\ example \in Examples
    /\ driver \in {"client"} \cup (IF example \in Scripted THEN {"script"} ELSE {})
    /\ pc = 1
    /\ console = <<>>
    /\ thrown = NoError
    /\ call = NoCall
    /\ invoked = <<>>
    /\ ret = Undefined
    /\ order = Order("ORD-001")
    /\ invoice = Undefined
    /\ total = Undefined
    /\ shapes = <<>>
    /\ repository \in IF example = "dip" THEN Repositories
                                         ELSE {[class |-> "UserUseRepository"]}
    /\ object \in Objects(example)

\* The run is alive and the client may make one more call.
ClientReady(ex) ==
    /\ example = ex
    /\ driver = "client"
    /\ thrown = NoError
    /\ Len(console) < MaxLog

\* The run is alive and the script's next statement runs.
ScriptReady(ex) ==
    /\ example = ex
    /\ driver = "script"
    /\ thrown = NoError

\* One call: what it printed, threw and returned becomes visible.
Do(fn, arg, e) ==
    /\ console' = console \o e.out
    /\ thrown' = e.err
    /\ call' = [fn |-> fn, arg |-> arg]
    /\ invoked' = e.calls
    /\ ret' = e.ret

MakeBirdFly ==
    /\ ClientReady("non_lsp")
    /\ \E bird \in InstancesOf(NonLspClasses, "Bird") :
          Do("makeBirdFly", bird, makeBirdFly(bird))
    /\ UNCHANGED <<example, driver, pc, notBirds>>

LetBirdMakeSound ==
    /\ ClientReady("lsp")
    /\ \E bird \in InstancesOf(LspClasses, "BaseBird") :
          Do("letBirdMakeSound", bird, letBirdMakeSound(bird))
    /\ UNCHANGED <<example, driver, pc, notBirds>>

LetBirdFly ==
    /\ ClientReady("lsp")
    /\ \E bird \in InstancesOf(LspClasses, "flyingBird") :
          Do("letBirdFly", bird, letBirdFly(bird))
    /\ UNCHANGED <<example, driver, pc, notBirds>>

\* Any method of interface Bird on a Duck or a Penguinss.
NonIspCall ==
    /\ ClientReady("non_isp")
    /\ \E cls \in DOMAIN NonIspClasses, m \in NonIspBird :
          Do(m, cls, Invoke(NonIspClasses, cls, m))
    /\ UNCHANGED <<example, driver, pc, notBirds>>

\* The next top-level call of non_isp.ts.
NonIspStep ==
    /\ ScriptReady("non_isp")
    /\ pc <= Len(NonIspScript)
    /\ LET s == NonIspScript[pc]
           e == Invoke(NonIspClasses, s.obj, s.m)
       IN  /\ Do(s.m, s.obj, e)
           /\ pc' = IF e.err = NoError THEN pc + 1 ELSE pc
    /\ UNCHANGED <<example, driver, notBirds>>

\* Any method a Duckss or a Penguinsss declares.
IspCall ==
    /\ ClientReady("isp")
    /\ \E cls \in DOMAIN IspClasses :
          \E m \in MethodsOf(IspClasses, cls) :
             Do(m, cls, Invoke(IspClasses, cls, m))
    /\ UNCHANGED <<example, driver, pc, notBirds>>

\* inventory.addProduct(order, product)
AddProduct ==
    /\ ClientReady("srp_main")
    /\ Len(getProducts(order)) < MaxProducts
    /\ \E product \in Products :
          /\ order' = addProduct(order, product)
          /\ Do("addProduct", product, Return(Undefined))
    /\ UNCHANGED <<example, driver, pc, invoice, total, notSrp>>

\* inventory.removeProduct(order, productId)
RemoveProduct ==
    /\ ClientReady("srp_main")
    /\ \E productId \in ProductIds :
          /\ order' = removeProduct(order, productId)
          /\ Do("removeProduct", productId, Return(Undefined))
    /\ UNCHANGED <<example, driver, pc, invoice, total, notSrp>>

\* accounting.calculateTotal(order)
CalculateTotal ==
    /\ ClientReady("srp_main")
    /\ Do("calculateTotal", order.orderId, Return(calculateTotal(order)))
    /\ UNCHANGED <<example, driver, pc, srpVars, notSrp>>

\* accounting.calculateTax(order)
CalculateTax ==
    /\ ClientReady("srp_main")
    /\ Do("calculateTax", order.orderId, Return(calculateTax(order)))
    /\ UNCHANGED <<example, driver, pc, srpVars, notSrp>>

\* InvoiceService.generateInvoice(order, accounting)
GenerateInvoice ==
    /\ ClientReady("srp_main")
    /\ \E date \in Dates :
          Do("generateInvoice", order.orderId, Return(generateInvoice(order, date)))
    /\ UNCHANGED <<example, driver, pc, srpVars, notSrp>>

\* The next top-level statement of main.ts.
MainStep ==
    /\ ScriptReady("srp_main")
    /\ pc <= Len(MainScript)
    /\ LET stmt == MainScript[pc]
       IN  \/ /\ stmt = "addProduct1"
              /\ order' = addProduct(order, product1)
              /\ Do("addProduct", product1, Return(Undefined))
              /\ UNCHANGED <<invoice, total>>
           \/ /\ stmt = "addProduct2"
              /\ order' = addProduct(order, product2)
              /\ Do("addProduct", product2, Return(Undefined))
              /\ UNCHANGED <<invoice, total>>
           \/ /\ stmt = "generateInvoice"
              /\ \E date \in Dates :
                    /\ invoice' = generateInvoice(order, date)
                    /\ Do("generateInvoice", order.orderId,
                          Return(generateInvoice(order, date)))
              /\ UNCHANGED <<order, total>>
           \/ /\ stmt = "log"
              /\ Do("console.log", "invoice", LogString(invoice))
              /\ UNCHANGED <<order, invoice, total>>
           \/ /\ stmt = "total"
              /\ total' = mainTotal(order)
              /\ Do("calculateTotal + calculateTax", order.orderId,
                    Return(mainTotal(order)))
              /\ UNCHANGED <<order, invoice>>
           \/ /\ stmt = "processPayment"
              /\ Do("processPayment", total, processPayment(total))
              /\ UNCHANGED <<order, invoice, total>>
    /\ pc' = pc + 1
    /\ UNCHANGED <<example, driver, notSrp>>

\* The client puts one more element in the array.
PushShape ==
    /\ ClientReady("non_ocp")
    /\ Len(shapes) < MaxShapes
    /\ \E shape \in PlainShapes \cup ShapeInstances :
          /\ shapes' = Append(shapes, shape)
          /\ Do("push", shape, Return(Undefined))
    /\ UNCHANGED <<example, driver, pc, notOcp>>

\* calculator.calculateArea(shapes)
CalculateArea ==
    /\ ClientReady("non_ocp")
    /\ Do("AreaCalculator.calculateArea", "shapes", AreaCalculator_calculateArea(shapes))
    /\ UNCHANGED <<example, driver, pc, shapes, notOcp>>

\* calculator2.calculateArea(shapes)
CalculateArea2 ==
    /\ ClientReady("non_ocp")
    /\ Do("AreaCalculator2.calculateArea", "shapes", AreaCalculator2_calculateArea(shapes))
    /\ UNCHANGED <<example, driver, pc, shapes, notOcp>>

\* controller.getUser(id)
GetUser ==
    /\ ClientReady("dip")
    /\ \E id \in UserIds :
          Do("getUser", id, UserUseController_getUser(repository, id))
    /\ UNCHANGED <<example, driver, pc, repository, notDip>>

\* controller.saveUser(user)
SaveUser ==
    /\ ClientReady("dip")
    /\ \E user \in Users :
          Do("saveUser", user, UserUseController_saveUser(repository, user))
    /\ UNCHANGED <<example, driver, pc, repository, notDip>>

\* object.setWidth(size) or object.setHeight(size)
SetSide ==
    /\ ClientReady("lsp_rectangle")
    /\ \E size \in {2, 3, 5} :
          \/ /\ object' = setWidth(object, size)
             /\ Do("setWidth", size, Return(Undefined))
          \/ /\ object' = setHeight(object, size)
             /\ Do("setHeight", size, Return(Undefined))
    /\ UNCHANGED <<example, driver, pc, notObject>>

\* resizeRectangle(object), in either variant
ResizeRectangle ==
    /\ ClientReady("lsp_rectangle")
    /\ \E checking \in BOOLEAN :
          LET r == resizeRectangle(object, checking)
          IN  /\ object' = r.object
              /\ Do("resizeRectangle", checking, r.effect)
    /\ UNCHANGED <<example, driver, pc, notObject>>

\* LSP README: processor.processPayment(amount), for an amount of -1, 0, 0.5
\* or 100
LspProcessPayment ==
    /\ ClientReady("lsp_processors")
    /\ \E amount \in {Num(-1), 0, 50, Num(100)}, now \in {1700000000, 1700000001} :
          Do("processPayment", amount, Lsp_processPayment(object.class, amount, now))
    /\ UNCHANGED <<example, driver, pc, object, notObject>>

\* non_lsp.ts, compliant version: processor.processPayment(amount) or
\* processOrder(processor, amount), for an amount of 0.5, 1, 10000 or 15000
CompliantPayment ==
    /\ ClientReady("lsp_compliant_payment")
    /\ \E amount \in {50, Num(1), Num(10000), Num(15000)} :
          \/ Do("processPayment", amount,
                Compliant_processPayment(object.class, amount))
          \/ Do("processOrder", amount, processOrder(object.class, amount))
    /\ UNCHANGED <<example, driver, pc, object, notObject>>

\* paymentService.addPaymentMethod(processor)
AddPaymentMethod ==
    /\ ClientReady("payment_service")
    /\ Len(object.processors) < MaxProcessors
    /\ \E processor \in Processors :
          LET r == addPaymentMethod(object, processor)
          IN  /\ object' = r.object
              /\ Do("addPaymentMethod", processor, r.effect)
    /\ UNCHANGED <<example, driver, pc, notObject>>

\* paymentService.processPayments(amount), for an amount of -1, 0 or 100
ProcessPayments ==
    /\ ClientReady("payment_service")
    /\ \E amount \in {-1, 0, 100}, now \in {1700000000, 1700000001} :
          Do("processPayments", amount, processPayments(object, amount, now))
    /\ UNCHANGED <<example, driver, pc, object, notObject>>

\* orderService.completeOrder(orderAmount, details), for an amount of -1, 0
\* or 100: the call runs up to its await
CompleteOrder ==
    /\ ClientReady("dip_order")
    /\ object.awaits = ""
    /\ \E orderAmount \in {-1, 0, 100} :
          LET r == completeOrder(object, orderAmount)
          IN  /\ object' = r.object
              /\ Do("completeOrder", orderAmount, r.effect)
    /\ UNCHANGED <<example, driver, pc, notObject>>

\* The promise of processPayment settles and completeOrder resumes.
PaymentSettles ==
    /\ example = "dip_order"
    /\ object.awaits = "processPayment"
    /\ \E now \in {1700000000, 1700000001} :
          \E settled \in PaymentResults(object.paymentProcessor, now) :
              /\ object' = [object EXCEPT !.awaits = "", !.result = settled]
              /\ Do("completeOrder", call.arg,
                    [completeOrder_resumed(settled) EXCEPT !.calls = invoked \o @])
    /\ UNCHANGED <<example, driver, pc, notObject>>

\* app.performOperation(): the call runs up to its await
PerformOperation ==
    /\ ClientReady("dip_logger")
    /\ object.awaits = ""
    /\ \E now \in {1700000000, 1700000001} :
          Do("performOperation", Undefined, performOperation(object, now))
    /\ object' = [object EXCEPT !.awaits = "doComplexWork", !.result = Undefined]
    /\ UNCHANGED <<example, driver, pc, notObject>>

\* The promise of doComplexWork settles and performOperation resumes.  The
\* simulated work of the example resolves with 'Success'; the rejection
\* stands for real work that fails.
WorkSettles ==
    /\ example = "dip_logger"
    /\ object.awaits = "doComplexWork"
    /\ \E now \in {1700000001, 1700000002},
          settled \in {[resolved |-> "Success"], [rejected |-> "Disk full"]} :
              /\ object' = [object EXCEPT !.awaits = "", !.result = settled]
              /\ Do("performOperation", Undefined,
                    [performOperation_resumed(object, settled, now)
                        EXCEPT !.calls = invoked \o @])
    /\ UNCHANGED <<example, driver, pc, notObject>>

\* userService.createUser(userData): the call runs up to its await.  The
\* random numbers drawn read "0.k3j9x2m1qz7" and "0" in base 36.
CreateUser ==
    /\ ClientReady("dip_user_service")
    /\ object.awaits = ""
    /\ \E userData \in {[name |-> "John Doe", email |-> 
                                      <<"j", "o", "h", "n", "@", "e", "x", "a", "m", "p", "l", "e", ".", "c", "o", "m">>],
                        [name |-> "Jane Doe", email |-> 
                                      <<"J", "a", "n", "e", "@", "E", "x", "a", "m", "p", "l", "e", ".", "C", "O", "M">>]},
          random \in {<<"0", ".", "k", "3", "j", "9", "x", "2", "m", "1", "q", "z", "7">>, <<"0">>} :
          LET r == createUser(object, userData, random)
          IN  /\ object' = r.object
              /\ Do("createUser", userData, r.effect)
    /\ UNCHANGED <<example, driver, pc, notObject>>

\* The promise of repository.save settles and createUser resumes.  The two
\* repositories of the example resolve; another implementation may reject.
SaveSettles ==
    /\ example = "dip_user_service"
    /\ object.awaits = "save"
    /\ \E settled \in {[resolved |-> Undefined]} \cup
                      (IF object.repository = "DataRepository"
                       THEN {[rejected |-> "Connection lost"]} ELSE {}) :
          /\ object' = [object EXCEPT !.awaits = ""]
          /\ Do("createUser", call.arg,
                [createUser_resumed(object, settled) EXCEPT !.calls = invoked \o @])
    /\ UNCHANGED <<example, driver, pc, notObject>>

\* service.saveUser(user) or service.getUser(id)
UserServiceCall ==
    /\ ClientReady("readme_database")
    /\ \/ \E user \in {[name |-> "Alice", email |-> "alice@example.com"],
                       [name |-> "Charlie", email |-> "charlie@example.com"]},
             random \in {0, 250000} :
             Do("saveUser", user, UserService_saveUser(object, user, random))
       \/ \E id \in {1, 42} :
             Do("getUser", id, UserService_getUser(object, id))
    /\ UNCHANGED <<example, driver, pc, object, notObject>>

\* inventory.addProduct(order, product) or inventory.removeProduct(order,
\* productId) on one of the two orders
OrderInventory ==
    /\ ClientReady("srp_orders")
    /\ \E k \in 1..2 :
          \/ /\ Len(OrderRead(object.arrays, object.orders[k]).products) < MaxProducts
             /\ \E product \in {product1, product2} :
                   /\ object' = [object EXCEPT !.arrays =
                                    inventory_addProduct(@, object.orders[k], product)]
                   /\ Do("addProduct", [order |-> k, product |-> product],
                         Return(Undefined))
          \/ \E productId \in {"1", "3"} :
                /\ object' = [object EXCEPT !.arrays =
                                 inventory_removeProduct(@, object.orders[k], productId)]
                /\ Do("removeProduct", [order |-> k, productId |-> productId],
                      Return(Undefined))
    /\ UNCHANGED <<example, driver, pc, notObject>>

\* order.getProducts(), a push on the array it returned,
\* accounting.calculateTotal(order) or InvoiceService.generateInvoice(order,
\* accounting)
OrderClient ==
    /\ ClientReady("srp_orders")
    /\ \/ \E k \in 1..2 :
             LET got == Order_getProducts(object.arrays, object.orders[k])
             IN  /\ object' = [object EXCEPT !.arrays = got.arrays]
                 /\ Do("getProducts", k, Return([array |-> got.ref]))
       \/ /\ call.fn = "getProducts"
          /\ Len(object.arrays[ret.array]) < MaxProducts
          /\ \E product \in {product1, product2} :
                /\ object' = [object EXCEPT !.arrays[ret.array] = Append(@, product)]
                /\ Do("push", [order |-> call.arg, product |-> product],
                      Return(Undefined))
       \/ \E k \in 1..2 :
             /\ Do("calculateTotal", k,
                   Return(calculateTotal(OrderRead(object.arrays, object.orders[k]))))
             /\ UNCHANGED object
       \/ \E k \in 1..2, date \in Dates :
             /\ Do("generateInvoice", [order |-> k, date |-> date],
                   Return(generateInvoice(OrderRead(object.arrays, object.orders[k]),
                                          date)))
             /\ UNCHANGED object
    /\ UNCHANGED <<example, driver, pc, notObject>>

\* service.performDatabaseOperation(query): the call runs up to its first
\* await
PerformDatabaseOperation ==
    /\ ClientReady("lsp_database")
    /\ object.awaits = ""
    /\ \E query \in {"SELECT * FROM users", "SELECT 1"} :
          LET r == performDatabaseOperation(object, query)
          IN  /\ object' = r.object
              /\ Do("performDatabaseOperation", query, r.effect)
    /\ UNCHANGED <<example, driver, pc, notObject>>

\* The promise awaited settles and performDatabaseOperation resumes.
ConnectionSettles ==
    /\ example = "lsp_database"
    /\ object.awaits # ""
    /\ \E settled \in Connection_promise(object.connection, object.awaits) :
          LET r == performDatabaseOperation_resumed(object, settled, call.arg)
          IN  /\ object' = r.object
              /\ Do("performDatabaseOperation", call.arg,
                    [r.effect EXCEPT !.calls = invoked \o @])
    /\ UNCHANGED <<example, driver, pc, notObject>>

\* container.register(token, implementation) or container.resolve(token)
DIContainerCall ==
    /\ ClientReady("di_container")
    /\ \/ \E token \in {"PaymentProcessor", "Logger"},
             implementation \in {[class |-> "CreditCardProcessor"],
                                 [class |-> "FileLogger"],
                                 [number |-> 3], [number |-> 0],
                                 [boolean |-> FALSE]} :
             /\ object' = register(object, token, implementation)
             /\ Do("register", [token |-> token, implementation |-> implementation],
                   Return(Undefined))
       \/ \E token \in {"PaymentProcessor", "Logger", "Mailer"} :
             /\ Do("resolve", token, resolve(object, token))
             /\ UNCHANGED object
    /\ UNCHANGED <<example, driver, pc, notObject>>

Next ==
    \/ MakeBirdFly
    \/ LetBirdMakeSound
    \/ LetBirdFly
    \/ NonIspCall
    \/ NonIspStep
    \/ IspCall
    \/ AddProduct
    \/ RemoveProduct
    \/ CalculateTotal
    \/ CalculateTax
    \/ GenerateInvoice
    \/ MainStep
    \/ PushShape
    \/ CalculateArea
    \/ CalculateArea2
    \/ GetUser
    \/ SaveUser
    \/ SetSide
    \/ ResizeRectangle
    \/ LspProcessPayment
    \/ CompliantPayment
    \/ AddPaymentMethod
    \/ ProcessPayments
    \/ CompleteOrder
    \/ PaymentSettles
    \/ PerformOperation
    \/ WorkSettles
    \/ CreateUser
    \/ SaveSettles
    \/ UserServiceCall
    \/ OrderInventory
    \/ OrderClient
    \/ PerformDatabaseOperation
    \/ ConnectionSettles
    \/ DIContainerCall

Spec == Init /\ [][Next]_vars

----------------------------------------------------------------------------
(* Properties.                                                             *)

\* The console line console.log(s) prints.
Line(s) == <<S(s)>>

\* The last n lines of the console.
LastLines(n) == SubSeq(console, Len(console) - n + 1, Len(console))

\* C1: in non_lsp.ts, makeBirdFly on a Penguin ends the run with the error
\* "Penguin cannot fly" raised by fly, and the Penguin's makeSound line is
\* never printed; makeBirdFly on a Bird or an Aparrow completes, its last two
\* lines being the bird's fly line and then its makeSound line.
C1_MakeBirdFly ==
    (example = "non_lsp" /\ call.fn = "makeBirdFly") =>
        /\ \A i \in 1..Len(console) : console[i] # Line("Pemhuin Sound")
        /\ call.arg = "Penguin" => thrown = "Penguin cannot fly"
        /\ call.arg = "Bird" =>
              /\ thrown = NoError
              /\ Len(console) >= 2
              /\ LastLines(2) = <<Line("Bird fly"), Line("bird makes sound")>>
        /\ call.arg = "Aparrow" =>
              /\ thrown = NoError
              /\ Len(console) >= 2
              /\ LastLines(2) = <<Line("Sparrow fly"), Line("Sparrow Sound")>>

\* A Penguin is passed to makeBirdFly after a Bird flew: the run has ended
\* with the error and only the Bird's two lines.
C1_Witness ==
    /\ example = "non_lsp"
    /\ call = [fn |-> "makeBirdFly", arg |-> "Penguin"]
    /\ thrown = "Penguin cannot fly"
    /\ console = <<Line("Bird fly"), Line("bird makes sound")>>

\* C2: in the compliant redesigns no run ever ends with an error:
\* letBirdMakeSound completes on every class of the hierarchy, letBirdFly
\* completes on every flyingBird printing the fly line and then the makeSound
\* line, every operation of Duckss and Penguinsss completes in any call
\* sequence, and Penguins and Penguinsss offer no fly and are never flown.
C2_CompliantNeverThrows ==
    /\ example \in {"lsp", "isp"} => thrown = NoError
    /\ (example = "lsp" /\ call.fn = "letBirdMakeSound") =>
          /\ call.arg \in {"BaseBird", "flyingBird", "Aparrow", "Penguins"}
          /\ Len(console) >= 1
    /\ (example = "lsp" /\ call.fn = "letBirdFly") =>
          /\ call.arg \in {"flyingBird", "Aparrow"}
          /\ Len(console) >= 2
          /\ LastLines(2) = Invoke(LspClasses, call.arg, "fly").out
                               \o Invoke(LspClasses, call.arg, "makeSound").out
    /\ (example = "isp" /\ call # NoCall /\ call.arg = "Penguinsss") =>
          call.fn \in {"swim", "makeSound"}
    /\ "fly" \notin MethodsOf(LspClasses, "Penguins")
    /\ "fly" \notin MethodsOf(IspClasses, "Penguinsss")

\* letBirdFly on an Aparrow after letBirdMakeSound on a Penguins.
C2_Witness ==
    /\ example = "lsp"
    /\ call = [fn |-> "letBirdFly", arg |-> "Aparrow"]
    /\ thrown = NoError
    /\ console = <<Line("Penguins can make sounds"),
                   Line("Aparrow can fly"), Line("Aparrow can sound")>>

\* What non_isp.ts prints, per its comments.
NonIspOutput ==
    <<Line("Duck flies"), Line("Duck swims"), Line("Quack"),
      Line("Penguin swims"), Line("Penguin sound")>>

\* C3: in non_isp.ts a call ends the run with an error exactly when it is
\* Penguinss.fly, the error being "Penguin can't fly"; the script prints
\* "Duck flies", "Duck swims", "Quack", "Penguin swims", "Penguin sound" in
\* that order and, once it can go no further, has printed all five and has
\* ended with that error.
C3_NonIspScript ==
    example = "non_isp" =>
        /\ thrown # NoError <=> (call.fn = "fly" /\ call.arg = "Penguinss")
        /\ thrown \in {NoError, "Penguin can't fly"}
        /\ driver = "script" =>
              /\ Len(console) <= Len(NonIspOutput)
              /\ console = SubSeq(NonIspOutput, 1, Len(console))
              /\ (thrown # NoError \/ pc > Len(NonIspScript)) =>
                    /\ console = NonIspOutput
                    /\ thrown = "Penguin can't fly"

\* The script has run to its last statement, which threw.
C3_Witness ==
    /\ example = "non_isp"
    /\ driver = "script"
    /\ call = [fn |-> "fly", arg |-> "Penguinss"]
    /\ thrown = "Penguin can't fly"
    /\ Len(console) = 5

\* The sum of the prices of a list of products, from the last one back.
RECURSIVE PriceSum(_)
PriceSum(ps) ==
    IF ps = <<>> THEN 0
    ELSE ps[Len(ps)].price + PriceSum(SubSeq(ps, 1, Len(ps) - 1))

\* The order of main.ts once both products are in.
DemoProducts == <<product1, product2>>

\* C4: calculateTotal(order) returns the sum of the prices of the products
\* now in the order, 0 for an empty order, and calculateTax(order) returns
\* 18% of that sum; for the order of main.ts they are 12000 and 2160.
C4_TotalAndTax ==
    example = "srp_main" =>
        /\ call.fn = "calculateTotal" =>
              /\ ret = PriceSum(order.products)
              /\ order.products = <<>> => ret = 0
              /\ order.products = DemoProducts => ret = Num(12000)
        /\ call.fn = "calculateTax" =>
              /\ ret * 100 = 18 * PriceSum(order.products)
              /\ order.products = DemoProducts => ret = Num(2160)

\* The tax of the order of main.ts has been asked for.
C4_Witness ==
    /\ example = "srp_main"
    /\ call.fn = "calculateTax"
    /\ order.products = DemoProducts
    /\ ret = Num(2160)

\* The lines of an invoice, and the number its line k ends with.
InvoiceLines(inv) == SplitLines(inv, <<>>)
ValueOn(lines, k) == lines[k][Len(lines[k])].n

\* C5: the invoice generateInvoice returns has, after its date line, a
\* separator line, the column header, one line per product of the order in
\* insertion order (name and price), a second separator line and the
\* Subtotal, Tax and Total lines, the Total value being the Subtotal value
\* plus the Tax value (12000 + 2160 = 14160 for the order of main.ts).
C5_Invoice ==
    (example = "srp_main" /\ call.fn = "generateInvoice") =>
        LET lines == InvoiceLines(ret)
            n == Len(order.products)
        IN  /\ Len(lines) = n + 7
            /\ {k \in 1..Len(lines) : lines[k] = Separator} = {2, n + 4}
            /\ \A i \in 1..n :
                  /\ lines[3 + i][1] = S(order.products[i].name)
                  /\ ValueOn(lines, 3 + i) = order.products[i].price
            /\ lines[n + 5][1] = S("Subtotal: ")
            /\ lines[n + 6][1] = S("Tax: ")
            /\ lines[n + 7][1] = S("Total: ")
            /\ ValueOn(lines, n + 7) = ValueOn(lines, n + 5) + ValueOn(lines, n + 6)
            /\ order.products = DemoProducts =>
                  /\ ValueOn(lines, n + 5) = Num(12000)
                  /\ ValueOn(lines, n + 6) = Num(2160)
                  /\ ValueOn(lines, n + 7) = Num(14160)

\* An invoice of the order of main.ts has been generated.
C5_Witness ==
    /\ example = "srp_main"
    /\ call.fn = "generateInvoice"
    /\ order.products = DemoProducts
    /\ ValueOn(InvoiceLines(ret), 9) = Num(14160)

\* What processPayment prints for an amount.
PaymentLines(amount) ==
    << <<S("Processing payment...")>>,
       <<S("Payment of "), N(amount), S(" processed successfully!")>>,
       <<S("Added to accounting system!")>>,
       <<S("Email sent to customer!")>> >>

\* C6: when main.ts is about to call processPayment, the invoice has been
\* generated and printed and the amount to pay is the Total of that invoice,
\* 14160; once processPayment has run, the console holds the invoice
\* followed by "Processing payment...", "Payment of 14160 processed
\* successfully!", "Added to accounting system!", "Email sent to customer!".
C6_PaymentAfterInvoice ==
    (example = "srp_main" /\ driver = "script") =>
        /\ (pc <= Len(MainScript) /\ MainScript[pc] = "processPayment") =>
              /\ invoice # Undefined
              /\ console = InvoiceLines(invoice)
              /\ total = ValueOn(InvoiceLines(invoice), Len(InvoiceLines(invoice)))
              /\ total = Num(14160)
        /\ call.fn = "processPayment" =>
              /\ call.arg = ValueOn(InvoiceLines(invoice), Len(InvoiceLines(invoice)))
              /\ console = InvoiceLines(invoice) \o PaymentLines(Num(14160))

\* main.ts has run to its end.
C6_Witness ==
    /\ example = "srp_main"
    /\ driver = "script"
    /\ call.fn = "processPayment"
    /\ pc > Len(MainScript)
    /\ Len(console) = 13

\* C7: a call of addProduct(order, product) leaves the order's list one
\* longer, with every product it held at its position and the new product
\* last, whether or not a product of the same id was already in it.
C7_AddProductAppends ==
    [][(example = "srp_main" /\ call'.fn = "addProduct") =>
          /\ Len(order'.products) = Len(order.products) + 1
          /\ \A i \in 1..Len(order.products) : order'.products[i] = order.products[i]
          /\ order'.products[Len(order.products) + 1] = call'.arg]_vars

\* A product has been added to an order that held one of the same id.
C7_Witness ==
    /\ example = "srp_main"
    /\ call.fn = "addProduct"
    /\ Len(order.products) >= 2
    /\ \E i \in 1..(Len(order.products) - 1) : order.products[i].id = call.arg.id
    /\ order.products[Len(order.products)] = call.arg

\* The instance with the dimensions of a plain shape, and back.
AsInstance(shape) ==
    CASE shape.type = "rectangle" -> Rectangle(shape.width, shape.height)
      [] shape.type = "circle" -> Circle(shape.radius)
      [] shape.type = "triangle" -> Triangle(shape.base, shape.height)

AsPlain(this) ==
    CASE this.class = "Rectangle" ->
             [type |-> "rectangle", width |-> this.width, height |-> this.height]
      [] this.class = "Circle" -> [type |-> "circle", radius |-> this.radius]
      [] this.class = "Triangle" ->
             [type |-> "triangle", base |-> this.base, height |-> this.height]

AllPlain(list) ==
    \A i \in 1..Len(list) :
        /\ "type" \in DOMAIN list[i]
        /\ list[i].type \in {"rectangle", "circle", "triangle"}

AllOfClasses(list, classes) ==
    \A i \in 1..Len(list) :
        /\ "class" \in DOMAIN list[i]
        /\ list[i].class \in classes

\* C8: on a list of rectangles, circles and triangles the type-switching
\* AreaCalculator returns what the polymorphic AreaCalculator2 returns on
\* the instances of the same dimensions, and the other way round.
C8_CalculatorsAgree ==
    example = "non_ocp" =>
        /\ (call.fn = "AreaCalculator.calculateArea" /\ AllPlain(shapes)) =>
              LET other == AreaCalculator2_calculateArea(
                               [i \in 1..Len(shapes) |-> AsInstance(shapes[i])])
              IN  /\ thrown = NoError
                  /\ other.err = NoError
                  /\ ret = other.ret
        /\ (call.fn = "AreaCalculator2.calculateArea"
              /\ AllOfClasses(shapes, {"Rectangle", "Circle", "Triangle"})) =>
              /\ thrown = NoError
              /\ ret = AreaCalculator_calculateArea(
                           [i \in 1..Len(shapes) |-> AsPlain(shapes[i])]).ret

\* The type-switching calculator has run on the file's rectangle, circle
\* and triangle.
C8_Witness ==
    /\ example = "non_ocp"
    /\ call.fn = "AreaCalculator.calculateArea"
    /\ shapes = << [type |-> "rectangle", width |-> 10, height |-> 5],
                   [type |-> "circle", radius |-> 7],
                   [type |-> "triangle", base |-> 6, height |-> 8] >>
    /\ ret = 227938057

\* The sum of what calculateArea returns on each element, first to last.
RECURSIVE AreaSum(_)
AreaSum(list) ==
    IF list = <<>> THEN 0
    ELSE calculateArea(Head(list)).ret + AreaSum(Tail(list))

\* C9: on a list of instances of the shape classes, Hexagon and Square
\* among them, AreaCalculator2.calculateArea completes and returns the sum
\* of the elements' own calculateArea(): 0 for the empty list, 25 for one
\* Square of side 5.
C9_PolymorphicSum ==
    (example = "non_ocp" /\ call.fn = "AreaCalculator2.calculateArea"
        /\ AllOfClasses(shapes, {"Rectangle", "Circle", "Triangle", "Hexagon", "Square"})) =>
        /\ thrown = NoError
        /\ ret = AreaSum(shapes)
        /\ shapes = <<>> => ret = 0
        /\ shapes = <<Square(5)>> => ret = 25 * 1000000
        /\ shapes = <<Rectangle(5, 4), Circle(3)>> => ret = 20 * 1000000 + 9 * Pi

\* The polymorphic calculator has run on a Hexagon, a Square and a Circle.
C9_Witness ==
    /\ example = "non_ocp"
    /\ call.fn = "AreaCalculator2.calculateArea"
    /\ shapes = <<Hexagon(4, 3), Square(5), Circle(3)>>
    /\ ret = 36 * 1000000 + 25 * 1000000 + 9 * Pi

\* C10: whatever repository is injected, controller.getUser(id) and
\* controller.saveUser(user) do what the repository's getUser(id) and
\* saveUser(user) do, then print the value it returned and return that
\* value; when the repository throws, so does the controller.
C10_PassThrough ==
    (example = "dip" /\ call.fn \in {"getUser", "saveUser"}) =>
        LET r == IF call.fn = "getUser" THEN repo_getUser(repository, call.arg)
                                        ELSE repo_saveUser(repository, call.arg)
            label == IF call.fn = "getUser" THEN "getUser result:"
                                            ELSE "saveUser result:"
            n == Len(r.out) + 1
        IN  /\ thrown = r.err
            /\ r.err = NoError =>
                  /\ ret = r.ret
                  /\ Len(console) >= n
                  /\ LastLines(n) = r.out \o << <<S(label), O(r.ret)>> >>

\* saveUser has gone through to a UserUseRepository after a getUser.
C10_Witness ==
    /\ example = "dip"
    /\ repository = [class |-> "UserUseRepository"]
    /\ call.fn = "saveUser"
    /\ ret = [name |-> "Manish", email |-> "manish@gmail.com"]
    /\ Len(console) = 3

\* The shapes of the file's usage: rectangle 10 x 5, circle of radius 7,
\* triangle of base 6 and height 8.
DemoShapes ==
    << [type |-> "rectangle", width |-> 10, height |-> 5],
       [type |-> "circle", radius |-> 7],
       [type |-> "triangle", base |-> 6, height |-> 8] >>

C12_SquareBreaksResize ==
    example = "lsp_rectangle" =>
        /\ object.class = "Square" => object.width = object.height
        /\ call.fn = "resizeRectangle" =>
              /\ Len(console) >= 1
              /\ object.class = "Rectangle" =>
                    /\ getArea(object) = 20
                    /\ thrown = NoError
                    /\ LastLines(1)[1][Len(LastLines(1)[1])] = N(20)
              /\ object.class = "Square" =>
                    /\ getArea(object) = 16
                    /\ LastLines(1)[1][Len(LastLines(1)[1])] = N(16)
                    /\ call.arg <=> thrown = "Area calculation failed!"
        /\ thrown # NoError =>
              /\ object.class = "Square"
              /\ call = [fn |-> "resizeRectangle", arg |-> TRUE]

\* The checking resizeRectangle has thrown on a Square that had been given
\* a width before.
C12_Witness ==
    /\ example = "lsp_rectangle"
    /\ object = NewSquare(4)
    /\ call = [fn |-> "resizeRectangle", arg |-> TRUE]
    /\ thrown = "Area calculation failed!"
    /\ console = << <<S("Area: "), N(16)>>,
                    <<S("Expected: "), N(20), S(", Actual: "), N(16)>> >>

\* x is one of the elements of the sequence.
Among(x, seq) == \E i \in 1..Len(seq) : seq[i] = x

\* C13: for each of CreditCardProcessor, PayPalProcessor and CryptoProcessor
\* of the LSP README, processPayment(amount) with a positive amount returns
\* a result with that amount, the status "success" and a non-empty
\* transactionId; with an amount <= 0 it throws "Payment amount must be
\* positive" and returns nothing.
C13_ProcessorsInterchangeable ==
    (example = "lsp_processors" /\ call.fn = "processPayment"
        /\ object.class \in {"CreditCardProcessor", "PayPalProcessor", "CryptoProcessor"}) =>
        /\ call.arg > 0 =>
              /\ thrown = NoError
              /\ ret.amount = call.arg
              /\ ret.status = "success"
              /\ ret.transactionId # <<>>
        /\ call.arg <= 0 =>
              /\ thrown = "Payment amount must be positive"
              /\ ret = Undefined

\* A CryptoProcessor has refused a zero amount after it took half a unit.
C13_Witness ==
    /\ example = "lsp_processors"
    /\ object.class = "CryptoProcessor"
    /\ call = [fn |-> "processPayment", arg |-> 0]
    /\ thrown = "Payment amount must be positive"
    /\ console = << <<S("Processing $"), N(50), S(" via Cryptocurrency")>> >>

\* C14: in the compliant payment example processPayment never throws; it
\* returns {success: false, error} without invoking executePayment exactly
\* when the processor is a CreditCardProcessor and the amount is above
\* 10000 or it is a PayPalProcessor and the amount is below 1, and
\* {success: true, message} from executePayment otherwise.
C14_ValidationNeverThrows ==
    example = "lsp_compliant_payment" =>
        /\ thrown = NoError
        /\ call.fn = "processPayment" =>
              LET fails == \/ /\ object.class = "CreditCardProcessor"
                              /\ call.arg > 10000 * 100
                           \/ /\ object.class = "PayPalProcessor"
                              /\ call.arg < 1 * 100
              IN  /\ fails =>
                        /\ DOMAIN ret = {"success", "error"}
                        /\ ret.success = FALSE
                        /\ ~Among("executePayment", invoked)
                  /\ ~fails =>
                        /\ DOMAIN ret = {"success", "message"}
                        /\ ret.success = TRUE
                        /\ invoked = <<"validatePayment", "executePayment">>

\* A CreditCardProcessor has been asked for exactly 10000 and has paid.
C14_Witness ==
    /\ example = "lsp_compliant_payment"
    /\ object.class = "CreditCardProcessor"
    /\ call = [fn |-> "processPayment", arg |-> Num(10000)]
    /\ ret.success = TRUE
    /\ invoked = <<"validatePayment", "executePayment">>

\* The calls of processPayment among the methods invoked.
ProcessPaymentCalls ==
    SelectSeq(invoked, LAMBDA name : name # "validatePayment")

\* C15 as stated, its last part: after processPayments(amount) with an
\* amount <= 0 every entry is a failure with the error "Payment amount must
\* be positive".
C15_AllFailPositive ==
    (example = "payment_service" /\ call.fn = "processPayments" /\ call.arg <= 0) =>
        \A i \in 1..Len(ret) :
            /\ ret[i].success = FALSE
            /\ ret[i].error = "Payment amount must be positive"

\* C15: processPayments(amount) never throws and returns exactly one result
\* per registered processor, in registration order, every processor's
\* processPayment having been invoked in that order; a processor whose
\* processPayment throws contributes {success: false, error: its message,
\* method: its class name}.  For an amount <= 0 every entry is a failure,
\* with the error "Payment amount must be positive" for the concrete
\* processors and "processPayment method must be implemented" for a bare
\* PaymentProcessor; for a positive amount only a bare PaymentProcessor
\* fails.
C15_OneResultPerProcessor ==
    (example = "payment_service" /\ call.fn = "processPayments") =>
        /\ thrown = NoError
        /\ Len(ret) = Len(object.processors)
        /\ ProcessPaymentCalls =
               [i \in 1..Len(object.processors) |->
                   object.processors[i].class \o ".processPayment"]
        /\ \A i \in 1..Len(object.processors) :
              LET processor == object.processors[i]
              IN  CASE processor.class = "PaymentProcessor" ->
                           ret[i] = [success |-> FALSE,
                                     error |-> "processPayment method must be implemented",
                                     method |-> "PaymentProcessor"]
                    [] call.arg <= 0 ->
                           ret[i] = [success |-> FALSE,
                                     error |-> "Payment amount must be positive",
                                     method |-> processor.class]
                    [] OTHER ->
                           /\ ret[i].success = TRUE
                           /\ ret[i].method =
                                  Ocp_processPayment(processor, 1, 0).ret.method

\* A bare PaymentProcessor registered between a CreditCardProcessor and a
\* PayPalProcessor has failed, and the PayPalProcessor after it has paid.
C15_Witness ==
    /\ example = "payment_service"
    /\ call = [fn |-> "processPayments", arg |-> 100]
    /\ Len(ret) = 3
    /\ ret[1].success /\ ~ret[2].success /\ ret[3].success
    /\ ret[2].method = "PaymentProcessor"
    /\ ret[3].method = <<S("PayPal")>>
    /\ ProcessPaymentCalls =
           <<"CreditCardProcessor.processPayment", "PaymentProcessor.processPayment",
             "PayPalProcessor.processPayment">>

\* C16: completeOrder(orderAmount, details) with an orderAmount <= 0 throws
\* "Invalid order amount" and the injected processor's processPayment is
\* never invoked: nothing is awaited and nothing is printed by the call.
C16_InvalidAmountRejected ==
    (example = "dip_order" /\ call.fn = "completeOrder" /\ call.arg <= 0) =>
        /\ thrown = "Invalid order amount"
        /\ invoked = <<>>
        /\ object.awaits = ""

\* A zero order has been refused after an order of 100 was completed
\* through the Stripe processor.
C16_Witness ==
    /\ example = "dip_order"
    /\ object.paymentProcessor = "StripeProcessor"
    /\ call = [fn |-> "completeOrder", arg |-> 0]
    /\ thrown = "Invalid order amount"
    /\ Len(console) = 3
    /\ object.result.resolved.status = "success"

\* C17: in completeOrder with a positive amount, processPayment is invoked
\* first; while its promise is pending finalizeOrder has not been invoked;
\* once it settled, finalizeOrder has been invoked (after processPayment)
\* if and only if it resolved with status "success"; a result with status
\* "failure" makes completeOrder return normally, and a rejection is
\* rethrown to the caller, in both cases without finalizing.
C17_FinalizeOnlyOnSuccess ==
    (example = "dip_order" /\ call.fn = "completeOrder" /\ call.arg > 0) =>
        IF object.awaits = "processPayment"
        THEN invoked = <<"processPayment">> /\ thrown = NoError
        ELSE IF "rejected" \in DOMAIN object.result
        THEN invoked = <<"processPayment">> /\ thrown = object.result.rejected
        ELSE IF object.result.resolved.status = "success"
        THEN invoked = <<"processPayment", "finalizeOrder">> /\ thrown = NoError
        ELSE invoked = <<"processPayment">> /\ thrown = NoError

\* An order returned normally, unfinalized, on a result of status
\* "failure".
C17_Witness ==
    /\ example = "dip_order"
    /\ call = [fn |-> "completeOrder", arg |-> 100]
    /\ object.awaits = ""
    /\ "resolved" \in DOMAIN object.result
    /\ object.result.resolved.status = "failure"
    /\ thrown = NoError
    /\ invoked = <<"processPayment">>
    /\ LastLines(1) = << <<S("Order failed: "), S("Insufficient funds")>> >>

\* The level and the message of console line i, as a logger printed them.
Logged(i) == <<console[i][4].s, console[i][6].s>>

\* C18: performOperation logs INFO "Starting operation" first; while the
\* work is pending nothing more is logged; when the work resolved it has
\* logged INFO "Operation completed" next and returns normally, when the
\* work rejected it has logged ERROR "Operation failed" next and rethrows
\* the error.  Every logger of the injected one prints each entry once, so
\* no run logs both or neither.
C18_StartThenOneOutcome ==
    (example = "dip_logger" /\ call.fn = "performOperation") =>
        LET each == IF object.logger.class = "CompositeLogger"
                    THEN Len(object.logger.loggers) ELSE 1
            calls == Len(console) \div each
            entry(k) == {Logged(i) : i \in (k - 1) * each + 1 .. k * each}
            last == IF object.awaits # "" THEN <<>>
                    ELSE IF "rejected" \in DOMAIN object.result
                    THEN <<"ERROR", "Operation failed">>
                    ELSE <<"INFO", "Operation completed">>
        IN  /\ Len(console) = calls * each
            /\ calls % 2 = (IF object.awaits # "" THEN 1 ELSE 0)
            /\ \A k \in 1..calls :
                  entry(k) = IF k % 2 = 1 THEN {<<"INFO", "Starting operation">>}
                             ELSE IF k = calls THEN {last}
                             ELSE {<<"INFO", "Operation completed">>}
            /\ invoked[1] = "log INFO Starting operation"
            /\ object.awaits # "" => invoked = <<invoked[1], "doComplexWork">>
            /\ object.awaits = "" =>
                  /\ Len(invoked) = 3
                  /\ invoked[3] = "log " \o last[1] \o " " \o last[2]
                  /\ thrown = IF "rejected" \in DOMAIN object.result
                              THEN object.result.rejected ELSE NoError

\* A composite logger has printed the start and the failure twice each, and
\* the error was rethrown.
C18_Witness ==
    /\ example = "dip_logger"
    /\ object.logger.class = "CompositeLogger"
    /\ call.fn = "performOperation"
    /\ thrown = "Disk full"
    /\ Len(console) = 4
    /\ Logged(1) = <<"INFO", "Starting operation">>
    /\ Logged(4) = <<"ERROR", "Operation failed">>
    /\ console[4][7] = O([error |-> "Disk full"])

C20_AllWorkTheSameWay ==
    (example = "readme_database" /\ object.database # "Database") =>
        /\ call.fn = "saveUser" =>
              /\ thrown = NoError
              /\ DOMAIN ret = DOMAIN call.arg \cup {"id"}
              /\ \A k \in DOMAIN call.arg : ret[k] = call.arg[k]
        /\ call.fn = "getUser" =>
              /\ thrown = NoError
              /\ "id" \in DOMAIN ret
              /\ ret.id = call.arg

\* The internal product list of order k.
Contents(k) == object.arrays[object.orders[k].products]

\* The list without its first product of that id.
Without(ps, productId) ==
    IF \A i \in 1..Len(ps) : ps[i].id # productId THEN ps
    ELSE LET first == CHOOSE i \in 1..Len(ps) :
                          /\ ps[i].id = productId
                          /\ \A j \in 1..(i - 1) : ps[j].id # productId
         IN  [j \in 1..(Len(ps) - 1) |-> IF j < first THEN ps[j] ELSE ps[j + 1]]

\* C21: every Order starts with an empty product list; getProducts()
\* returns the internal list itself, so a push on the returned array, like
\* addProduct and removeProduct, changes that order's list and no other
\* order's; calculateTotal and generateInvoice observe the current list and
\* change nothing.
C21_OneListPerOrder ==
    /\ example = "srp_orders" => \A k \in 1..2 : Contents(k) = <<>>
    /\ [][example = "srp_orders" =>
             LET k == IF call'.fn \in {"getProducts", "calculateTotal"}
                      THEN call'.arg ELSE call'.arg.order
                 expected ==
                     CASE call'.fn \in {"addProduct", "push"} ->
                              Append(Contents(k), call'.arg.product)
                       [] call'.fn = "removeProduct" ->
                              Without(Contents(k), call'.arg.productId)
                       [] OTHER -> Contents(k)
                 after(j) == object'.arrays[object'.orders[j].products]
             IN  /\ after(k) = expected
                 /\ after(3 - k) = Contents(3 - k)
                 /\ call'.fn = "getProducts" =>
                       ret'.array = object'.orders[k].products
                 /\ call'.fn = "calculateTotal" => ret' = PriceSum(expected)
                 /\ call'.fn = "generateInvoice" =>
                       ret' = generateInvoice([orderId |-> object.orders[k].orderId,
                                               products |-> expected],
                                              call'.arg.date)]_vars

\* The second order holds the one product pushed on the array its
\* getProducts() returned, while the first holds the two of main.ts.
C21_Witness ==
    /\ example = "srp_orders"
    /\ call = [fn |-> "push", arg |-> [order |-> 2, product |-> product2]]
    /\ Contents(1) = <<product1, product2>>
    /\ Contents(2) = <<product2>>

\* C22: in both stacks (UserUseRepository and UserRepository) the
\* repository holds no field, and after any sequence of getUser and
\* saveUser calls, getUser(id) returns {id, name: "Alice"} for the id passed
\* in, whatever users were saved before; saveUser too returns a value that
\* depends on its argument alone, so two calls with equal arguments return
\* equal results.
C22_NoPersistentState ==
    (example = "dip" /\ repository.class \in {"UserUseRepository", "UserRepository"}) =>
        /\ DOMAIN repository = {"class"}
        /\ thrown = NoError
        /\ call.fn = "getUser" => ret = [id |-> call.arg, name |-> "Alice"]
        /\ call.fn = "saveUser" =>
              ret = IF repository.class = "UserUseRepository"
                    THEN [name |-> "Manish", email |-> "manish@gmail.com"]
                    ELSE [user |-> call.arg]

\* getUser("1") has answered Alice although a user of id "1" named Bob was
\* saved before.
C22_Witness ==
    /\ example = "dip"
    /\ repository.class = "UserUseRepository"
    /\ call = [fn |-> "getUser", arg |-> "1"]
    /\ ret = [id |-> "1", name |-> "Alice"]
    /\ \E i \in 1..Len(console) :
          console[i] = <<S("saving user"), O([id |-> "1", name |-> "Bob"])>>

\* C23: performDatabaseOperation calls connect, then executeQuery, then
\* disconnect, each only after the promise of the previous one resolved:
\* the methods invoked so far are connect, executeQuery, disconnect up to
\* the one awaited or failed.  It returns the result of the query once
\* disconnect resolved; when a method fails its error is printed and
\* rethrown, so that after a failure of connect or executeQuery disconnect
\* has not been called.
C23_ConnectQueryDisconnect ==
    (example = "lsp_database" /\ call.fn = "performDatabaseOperation") =>
        LET steps == <<"connect", "executeQuery", "disconnect">>
            upTo(method) == SubSeq(steps, 1, CHOOSE n \in 1..3 : steps[n] = method)
        IN  /\ object.awaits # "" =>
                  /\ invoked = upTo(object.awaits)
                  /\ thrown = NoError /\ ret = Undefined
            /\ (object.awaits = "" /\ thrown = NoError) =>
                  /\ invoked = steps
                  /\ object.failed = ""
                  /\ ret = object.result /\ "result" \in DOMAIN ret
            /\ (object.awaits = "" /\ thrown # NoError) =>
                  /\ object.failed \in {"connect", "executeQuery", "disconnect"}
                  /\ invoked = upTo(object.failed)
                  /\ object.failed # "disconnect" => ~Among("disconnect", invoked)
                  /\ ret = Undefined
                  /\ LastLines(1) = << <<S("Database operation failed:"), O(thrown)>> >>

\* The query was refused after the connection was made: the error came
\* back and the connection was left open.
C23_Witness ==
    /\ example = "lsp_database"
    /\ call = [fn |-> "performDatabaseOperation", arg |-> "SELECT 1"]
    /\ object.awaits = ""
    /\ object.failed = "executeQuery"
    /\ thrown = "executeQuery refused"
    /\ invoked = <<"connect", "executeQuery">>

\* C24: register(token, impl) makes impl the value held for the token,
\* whatever the value, and resolve(token) returns the value held for a
\* token that was registered (the one registered last) and throws "Service
\* <token> not found" exactly for a token that never was.
C24_RoundTrip ==
    /\ (example = "di_container" /\ call.fn = "register") =>
          object.services[call.arg.token] = call.arg.implementation
    /\ (example = "di_container" /\ call.fn = "resolve") =>
          IF call.arg \in DOMAIN object.services
          THEN thrown = NoError /\ ret = object.services[call.arg]
          ELSE thrown = "Service " \o call.arg \o " not found" /\ ret = Undefined

====
